---- MODULE Spec2Model ----
(***************************************************************************)
(* StrategyMasters: the round state machine of GameState, the decision     *)
(* processing and settlement of Company, the Market and Event updates the  *)
(* round advance runs, and the web handlers submit_decisions and           *)
(* advance_round over the GameStateManager store.                          *)
(*                                                                         *)
(* Python floats are modelled in fixed point:                              *)
(*   money                 thousands of dollars (k$)                       *)
(*   [0,100] attributes    hundredths of a point (50.0 is 5000)            *)
(*   patent_portfolio      thousandths of a patent                         *)
(*   volumes, capacity,                                                    *)
(*   market size           thousands of units                              *)
(*   segment sizes,                                                        *)
(*   market_share          1/10000 of the whole                            *)
(*   profit_margin, roi    whole percent                                   *)
(* Divisions round down.                                                   *)
(***************************************************************************)
EXTENDS Integers, Sequences, FiniteSets, TLC

\* ---------------------------------------------------------------- bounds
\* Number of teams of the game (num_teams of create_game).
NumTeams == 2
\* Largest num_rounds a game is created with.
MaxRounds == 3
\* Number of request workers that serve web requests at the same time.
NumWorkers == 2

Teams == 1..NumTeams
\* team ids a request may name: the roster and one unknown id (0)
RequestTeams == 0..NumTeams
Workers == 1..NumWorkers

\* ------------------------------------------------- company.py constants
INITIAL_CAPITAL == 500000
INITIAL_RD_CAPABILITY == 5000
INITIAL_PRODUCTION_CAPACITY == 500
INITIAL_BRAND_STRENGTH == 5000
INITIAL_QUALITY_CONTROL == 5000
INITIAL_CUSTOMER_SATISFACTION == 5000
INITIAL_INNOVATION_INDEX == 5000
INITIAL_RD_EFFECTIVENESS == 5000
INITIAL_ENVIRONMENTAL_IMPACT == 5000
INITIAL_CSR_RATING == 5000
INITIAL_EMPLOYEE_SATISFACTION == 5000

Segments == {"premium", "mid_range", "budget"}

DEFAULT_PRODUCTS_CONFIG ==
    [s \in Segments |->
       CASE s = "premium" ->
              [active |-> TRUE, price |-> 999, quality |-> 80, features |-> 80,
               production_volume |-> 100, marketing_budget |-> 20000]
         [] s = "mid_range" ->
              [active |-> TRUE, price |-> 499, quality |-> 60, features |-> 60,
               production_volume |-> 200, marketing_budget |-> 15000]
         [] OTHER ->
              [active |-> TRUE, price |-> 199, quality |-> 40, features |-> 40,
               production_volume |-> 300, marketing_budget |-> 10000]]

RD_BUDGET_DIVISOR_CAPABILITY == 50000
RD_CAPABILITY_POINTS_PER_UNIT == 5
\* RD_EFFECTIVENESS_BOOST_FACTOR is 0.4: tenths
RD_EFFECTIVENESS_BOOST_FACTOR == 4
\* RD_INNOVATION_BOOST_PER_ALLOCATION_POINT is 0.1 point: hundredths of a point
RD_INNOVATION_BOOST_PER_ALLOCATION_POINT == 10
RD_PATENT_GAIN_BUDGET_DIVISOR == 100000
\* OPS_CAPACITY_INVESTMENT_COST_PER_UNIT is 10,000 $ per unit: k$ per thousand units
OPS_CAPACITY_INVESTMENT_COST_PER_UNIT == 10000
OPS_QUALITY_INVESTMENT_DIVISOR == 10000
OPS_QUALITY_POINTS_PER_UNIT == 5
CORP_SUSTAINABILITY_INVESTMENT_DIVISOR == 5000
CORP_SUSTAINABILITY_POINTS_PER_UNIT == 5
CORP_CSR_INVESTMENT_DIVISOR == 5000
CORP_CSR_POINTS_PER_UNIT == 5
CORP_EMPLOYEE_INVESTMENT_DIVISOR == 5000
CORP_EMPLOYEE_POINTS_PER_UNIT == 5
CORP_BRAND_INVESTMENT_DIVISOR == 20000
CORP_BRAND_POINTS_PER_UNIT == 5
MAX_ATTRIBUTE_SCORE == 10000
MIN_ATTRIBUTE_SCORE == 0

BASE_FIXED_COSTS == 10000
UNIT_COST_BASE ==
    [s \in Segments |->
       CASE s = "premium" -> 300 [] s = "mid_range" -> 200 [] OTHER -> 100]
UNIT_COST_QUALITY_FACTOR_DIVISOR == 50
UNIT_COST_FEATURE_FACTOR_DIVISOR == 50
UNIT_COST_RD_EFFICIENCY_BASE == 5000
\* UNIT_COST_RD_EFFICIENCY_EFFECT_MAX is 0.2: percent
UNIT_COST_RD_EFFICIENCY_EFFECT_MAX == 20

\* ---------------------------------------------------------------- helpers
Min(a, b) == IF a < b THEN a ELSE b
Max(a, b) == IF a > b THEN a ELSE b

\* the value v with its functions tabulated: TLC computes the body of a
\* function constructor anew at every application until the function has been
\* compared
Evaluated(v) == IF v = v THEN v ELSE v

\* dict.get(key, default)
Get(d, k, default) == IF k \in DOMAIN d THEN d[k] ELSE default

\* the dict d with d[k] = v
Put(d, k, v) == Evaluated([x \in DOMAIN d \cup {k} |-> IF x = k THEN v ELSE d[x]])

\* the empty dict {}
EmptyDict == [x \in {} |-> 0]

RECURSIVE SumOver(_, _)
SumOver(S, f) ==
    IF S = {} THEN 0
    ELSE LET x == CHOOSE y \in S : TRUE IN f[x] + SumOver(S \ {x}, f)

\* ------------------------------------------------------------------ Company
Company(team_id) ==
    [team_id |-> team_id,
     capital |-> INITIAL_CAPITAL,
     revenue |-> 0, costs |-> 0, profit |-> 0, profit_margin |-> 0, roi |-> 0,
     r_d_capability |-> INITIAL_RD_CAPABILITY,
     production_capacity |-> INITIAL_PRODUCTION_CAPACITY,
     brand_strength |-> INITIAL_BRAND_STRENGTH,
     quality_control |-> INITIAL_QUALITY_CONTROL,
     market_share |-> 0,
     customer_satisfaction |-> INITIAL_CUSTOMER_SATISFACTION,
     patent_portfolio |-> 0,
     innovation_index |-> INITIAL_INNOVATION_INDEX,
     r_d_effectiveness |-> INITIAL_RD_EFFECTIVENESS,
     environmental_impact |-> INITIAL_ENVIRONMENTAL_IMPACT,
     csr_rating |-> INITIAL_CSR_RATING,
     employee_satisfaction |-> INITIAL_EMPLOYEE_SATISFACTION,
     products |-> DEFAULT_PRODUCTS_CONFIG,
     decisions_history |-> EmptyDict,
     score |-> 0, financial_score |-> 0, market_score |-> 0,
     innovation_score |-> 0, sustainability_score |-> 0]

Clamp100(v) == Min(MAX_ATTRIBUTE_SCORE, Max(MIN_ATTRIBUTE_SCORE, v))

FocusAreas == {"camera", "battery", "processor", "display", "software"}

\* a variant of ProcessRD that lets r_d_capability grow past the maximum score
ProcessRD_Uncapped(c, decisions) ==
    IF "r_d" \notin DOMAIN decisions THEN c
    ELSE
      LET requested == Get(decisions.r_d, "budget", 0)
          r_d_focus == Get(decisions.r_d, "focus", EmptyDict)
          r_d_budget == IF requested > c.capital THEN c.capital ELSE requested
          r_d_improvement ==
              (r_d_budget * RD_CAPABILITY_POINTS_PER_UNIT * 100)
                  \div RD_BUDGET_DIVISOR_CAPABILITY
          r_d_effectiveness_boost ==
              (r_d_improvement * RD_EFFECTIVENESS_BOOST_FACTOR) \div 10
          innovation_boost ==
              SumOver(DOMAIN r_d_focus \cap FocusAreas,
                      [a \in DOMAIN r_d_focus |->
                         r_d_focus[a] * RD_INNOVATION_BOOST_PER_ALLOCATION_POINT])
          patent_gain == (r_d_budget * 1000) \div RD_PATENT_GAIN_BUDGET_DIVISOR
      IN [c EXCEPT
            !.capital = c.capital - r_d_budget,
            !.r_d_capability = c.r_d_capability + r_d_improvement,
            !.r_d_effectiveness = Clamp100(c.r_d_effectiveness + r_d_effectiveness_boost),
            !.innovation_index = Clamp100(c.innovation_index + innovation_boost),
            !.patent_portfolio = c.patent_portfolio + patent_gain]

\* company.py 171-192: the r_d section
ProcessRD(c, decisions) ==
    IF "r_d" \notin DOMAIN decisions THEN c
    ELSE
      LET requested == Get(decisions.r_d, "budget", 0)
          r_d_focus == Get(decisions.r_d, "focus", EmptyDict)
          r_d_budget == IF requested > c.capital THEN c.capital ELSE requested
          r_d_improvement ==
              (r_d_budget * RD_CAPABILITY_POINTS_PER_UNIT * 100)
                  \div RD_BUDGET_DIVISOR_CAPABILITY
          r_d_effectiveness_boost ==
              (r_d_improvement * RD_EFFECTIVENESS_BOOST_FACTOR) \div 10
          innovation_boost ==
              SumOver(DOMAIN r_d_focus \cap FocusAreas,
                      [a \in DOMAIN r_d_focus |->
                         r_d_focus[a] * RD_INNOVATION_BOOST_PER_ALLOCATION_POINT])
          patent_gain == (r_d_budget * 1000) \div RD_PATENT_GAIN_BUDGET_DIVISOR
      IN [c EXCEPT
            !.capital = c.capital - r_d_budget,
            !.r_d_capability = Min(MAX_ATTRIBUTE_SCORE, c.r_d_capability + r_d_improvement),
            !.r_d_effectiveness = Clamp100(c.r_d_effectiveness + r_d_effectiveness_boost),
            !.innovation_index = Clamp100(c.innovation_index + innovation_boost),
            !.patent_portfolio = c.patent_portfolio + patent_gain]

\* a variant of ProcessSegment that overwrites and charges a segment whether
\* it is active or not
ProcessSegment_Inactive(st, segment, product_decisions) ==
    IF segment \notin Segments THEN st
    ELSE
      LET p == st.c.products[segment]
          affordable ==
              Min(Get(product_decisions, "marketing_budget", p.marketing_budget),
                  st.before - st.spent)
          affordable_marketing_budget == IF affordable < 0 THEN 0 ELSE affordable
      IN [c |-> [st.c EXCEPT
                   !.products[segment] =
                       [active |-> Get(product_decisions, "active", p.active),
                        price |-> Get(product_decisions, "price", p.price),
                        quality |-> Get(product_decisions, "quality", p.quality),
                        features |-> Get(product_decisions, "features", p.features),
                        production_volume |->
                            Get(product_decisions, "production_volume", p.production_volume),
                        marketing_budget |-> affordable_marketing_budget],
                   !.capital = st.c.capital - affordable_marketing_budget],
          before |-> st.before,
          spent |-> st.spent + affordable_marketing_budget]

\* company.py 199-216: one entry of decisions["products"]; st carries the
\* company, the capital before marketing and the marketing spent so far
ProcessSegment(st, segment, product_decisions) ==
    IF segment \notin Segments THEN st
    ELSE
      LET p == st.c.products[segment]
          active == Get(product_decisions, "active", p.active)
      IN IF ~active
         THEN [st EXCEPT !.c.products[segment].active = FALSE]
         ELSE
           LET marketing_budget_for_segment ==
                   Get(product_decisions, "marketing_budget", p.marketing_budget)
               affordable ==
                   Min(marketing_budget_for_segment, st.before - st.spent)
               affordable_marketing_budget == IF affordable < 0 THEN 0 ELSE affordable
           IN [c |-> [st.c EXCEPT
                        !.products[segment] =
                            [active |-> TRUE,
                             price |-> Get(product_decisions, "price", p.price),
                             quality |-> Get(product_decisions, "quality", p.quality),
                             features |-> Get(product_decisions, "features", p.features),
                             production_volume |->
                                 Get(product_decisions, "production_volume", p.production_volume),
                             marketing_budget |-> affordable_marketing_budget],
                        !.capital = st.c.capital - affordable_marketing_budget],
               before |-> st.before,
               spent |-> st.spent + affordable_marketing_budget]

\* the loop of company.py 199 over the items of decisions["products"], a
\* sequence of <<segment, product_decisions>> in the payload's order
RECURSIVE ProcessSegments(_, _)
ProcessSegments(st, items) ==
    IF items = <<>> THEN st
    ELSE ProcessSegments(ProcessSegment(st, items[1][1], items[1][2]), Tail(items))

\* company.py 218-223: proportional scale-down to the production capacity
total_production(c) ==
    SumOver({s \in Segments : c.products[s].active},
            [s \in Segments |-> c.products[s].production_volume])

ScaleProduction(c) ==
    LET total == total_production(c)
    IN IF total > c.production_capacity
       THEN [c EXCEPT !.products = Evaluated(
               [s \in Segments |->
                  IF c.products[s].active
                  THEN [c.products[s] EXCEPT !.production_volume =
                          IF total > 0
                          THEN (c.products[s].production_volume * c.production_capacity)
                                   \div total
                          ELSE 0]
                  ELSE c.products[s]])]
       ELSE c

\* a variant of ProcessProducts that runs without a products section too
ProcessProducts_Unguarded(c, decisions) ==
    ScaleProduction(
      ProcessSegments([c |-> c, before |-> c.capital, spent |-> 0],
                      Get(decisions, "products", <<>>)).c)

\* company.py 194-223: the products section
ProcessProducts(c, decisions) ==
    IF "products" \notin DOMAIN decisions THEN c
    ELSE ScaleProduction(
           ProcessSegments([c |-> c, before |-> c.capital, spent |-> 0],
                           decisions.products).c)

\* a variant of Affordable that grants the request whatever the cash
Affordable_Unclamped(requested, capital) == requested

\* an investment clamped to the cash at hand (company.py 229-232 and alike)
Affordable(requested, capital) == IF requested > capital THEN capital ELSE requested

\* company.py 225-241: the operations section
ProcessOperations(c, decisions) ==
    IF "operations" \notin DOMAIN decisions THEN c
    ELSE
      LET ops == decisions.operations
          capacity_investment == Affordable(Get(ops, "capacity_investment", 0), c.capital)
          c1 == [c EXCEPT
                   !.capital = c.capital - capacity_investment,
                   !.production_capacity =
                       c.production_capacity
                         + (capacity_investment \div OPS_CAPACITY_INVESTMENT_COST_PER_UNIT)]
          quality_investment == Affordable(Get(ops, "quality_investment", 0), c1.capital)
          quality_improvement ==
              (quality_investment * OPS_QUALITY_POINTS_PER_UNIT * 100)
                  \div OPS_QUALITY_INVESTMENT_DIVISOR
      IN [c1 EXCEPT
            !.capital = c1.capital - quality_investment,
            !.quality_control = Clamp100(c1.quality_control + quality_improvement)]

\* company.py 243-273: the corporate section
ProcessCorporate(c, decisions) ==
    IF "corporate" \notin DOMAIN decisions THEN c
    ELSE
      LET corp == decisions.corporate
          sustainability_investment ==
              Affordable(Get(corp, "sustainability_investment", 0), c.capital)
          c1 == [c EXCEPT
                   !.capital = c.capital - sustainability_investment,
                   !.environmental_impact =
                       Clamp100(c.environmental_impact
                                  + (sustainability_investment
                                       * CORP_SUSTAINABILITY_POINTS_PER_UNIT * 100)
                                      \div CORP_SUSTAINABILITY_INVESTMENT_DIVISOR)]
          csr_investment == Affordable(Get(corp, "csr_investment", 0), c1.capital)
          c2 == [c1 EXCEPT
                   !.capital = c1.capital - csr_investment,
                   !.csr_rating =
                       Clamp100(c1.csr_rating
                                  + (csr_investment * CORP_CSR_POINTS_PER_UNIT * 100)
                                      \div CORP_CSR_INVESTMENT_DIVISOR)]
          employee_investment == Affordable(Get(corp, "employee_investment", 0), c2.capital)
          c3 == [c2 EXCEPT
                   !.capital = c2.capital - employee_investment,
                   !.employee_satisfaction =
                       Clamp100(c2.employee_satisfaction
                                  + (employee_investment * CORP_EMPLOYEE_POINTS_PER_UNIT * 100)
                                      \div CORP_EMPLOYEE_INVESTMENT_DIVISOR)]
          brand_investment == Affordable(Get(corp, "brand_investment", 0), c3.capital)
      IN [c3 EXCEPT
            !.capital = c3.capital - brand_investment,
            !.brand_strength =
                Clamp100(c3.brand_strength
                           + (brand_investment * CORP_BRAND_POINTS_PER_UNIT * 100)
                               \div CORP_BRAND_INVESTMENT_DIVISOR)]

\* a variant of process_decisions that runs the corporate section first
process_decisions_CorporateFirst(c, decisions, market) ==
    LET c0 == [c EXCEPT !.decisions_history =
                 Put(c.decisions_history, market.current_round, decisions)]
    IN ProcessOperations(
         ProcessProducts(
           ProcessRD(
             ProcessCorporate(c0, decisions), decisions), decisions), decisions)

\* company.py 164-273: Company.process_decisions(decisions, market); the
\* history key is the market's round counter
process_decisions(c, decisions, market) ==
    LET c0 == [c EXCEPT !.decisions_history =
                 Put(c.decisions_history, market.current_round, decisions)]
    IN ProcessCorporate(
         ProcessOperations(
           ProcessProducts(
             ProcessRD(c0, decisions), decisions), decisions), decisions)


\* company.py 323-344: Company._calculate_unit_cost, dollars per unit
_calculate_unit_cost(c, segment) ==
    LET p == c.products[segment]
        r_d_efficiency_pct ==
            ((c.r_d_capability - UNIT_COST_RD_EFFICIENCY_BASE) * UNIT_COST_RD_EFFICIENCY_EFFECT_MAX)
                \div UNIT_COST_RD_EFFICIENCY_BASE
        reduction_pct ==
            Min(UNIT_COST_RD_EFFICIENCY_EFFECT_MAX,
                Max(-UNIT_COST_RD_EFFICIENCY_EFFECT_MAX, r_d_efficiency_pct))
        unit_cost ==
            (UNIT_COST_BASE[segment] * p.quality * p.features * (100 - reduction_pct))
                \div (UNIT_COST_QUALITY_FACTOR_DIVISOR * UNIT_COST_FEATURE_FACTOR_DIVISOR * 100)
    IN Max(0, unit_cost)

\* company.py 275-321: Company.update_financials(market_results);
\* market_results is the team's entry of the settlement, or {} without one
update_financials(c, market_results) ==
    LET sales == Get(market_results, "sales", EmptyDict)
        sold == {s \in DOMAIN sales : s \in Segments /\ c.products[s].active}
        revenue ==
            SumOver(sold, [s \in DOMAIN sales |-> sales[s].units_sold * c.products[s].price])
        costs ==
            SumOver(sold, [s \in DOMAIN sales |->
                             sales[s].units_sold * _calculate_unit_cost(c, s)])
              + BASE_FIXED_COSTS
        profit == revenue - costs
        total_marketing ==
            SumOver({s \in Segments : c.products[s].active},
                    [s \in Segments |-> c.products[s].marketing_budget])
    IN [c EXCEPT
          !.revenue = revenue,
          !.costs = costs,
          !.profit = profit,
          !.capital = c.capital + profit,
          !.profit_margin = IF revenue > 0 THEN (profit * 100) \div revenue ELSE 0,
          !.roi = IF total_marketing > 0 THEN (profit * 100) \div total_marketing ELSE 0,
          !.market_share = Get(market_results, "market_share", 0),
          !.customer_satisfaction =
              Max(MIN_ATTRIBUTE_SCORE,
                  Min(MAX_ATTRIBUTE_SCORE,
                      c.customer_satisfaction
                        + Get(market_results, "customer_satisfaction_change", 0)))]

FIN_SCORE_REVENUE_SCALE_DIVISOR == 10000
FIN_SCORE_PROFIT_MARGIN_MULTIPLIER == 5
FIN_SCORE_CAPITAL_SCALE_DIVISOR == 10000
SUST_VIABILITY_PROFIT_MARGIN_MIN == 0
SUST_VIABILITY_CAPITAL_MIN == 100000
SUST_VIABILITY_MARKET_SHARE_MIN == 500
SUST_VIABILITY_INNOVATION_INDEX_MIN == 5000
SUST_VIABILITY_CUSTOMER_SATISFACTION_MIN == 6000

Bit(b) == IF b THEN 1 ELSE 0

\* a variant of calculate_score that adds the composite to the one stored
calculate_score_Accumulated(c) ==
    LET revenue_score ==
            Min(MAX_ATTRIBUTE_SCORE, (c.revenue * 100) \div FIN_SCORE_REVENUE_SCALE_DIVISOR)
        profit_score == Clamp100(c.profit_margin * FIN_SCORE_PROFIT_MARGIN_MULTIPLIER * 100)
        roi_score == Clamp100(c.roi * 100)
        capital_score ==
            Min(MAX_ATTRIBUTE_SCORE, (c.capital * 100) \div FIN_SCORE_CAPITAL_SCALE_DIVISOR)
        financial_score ==
            IF c.revenue > 0
            THEN (revenue_score * 3 + profit_score * 3 + roi_score * 2 + capital_score * 2) \div 10
            ELSE MIN_ATTRIBUTE_SCORE
        market_share_score == Clamp100(c.market_share)
        active_products == Cardinality({s \in Segments : c.products[s].active})
        portfolio_score == (active_products * MAX_ATTRIBUTE_SCORE) \div Cardinality(Segments)
        market_score ==
            (market_share_score * 4 + c.brand_strength * 3
               + c.customer_satisfaction * 2 + portfolio_score * 1) \div 10
        patent_score == Min(MAX_ATTRIBUTE_SCORE, c.patent_portfolio)
        growth_potential ==
            Min(MAX_ATTRIBUTE_SCORE, (c.r_d_capability + c.innovation_index) \div 2)
        innovation_score ==
            (patent_score * 3 + c.innovation_index * 3
               + c.r_d_effectiveness * 2 + growth_potential * 2) \div 10
        viability_factors_met ==
            Bit(c.profit_margin > SUST_VIABILITY_PROFIT_MARGIN_MIN)
              + Bit(c.capital > SUST_VIABILITY_CAPITAL_MIN)
              + Bit(c.market_share > SUST_VIABILITY_MARKET_SHARE_MIN)
              + Bit(c.innovation_index > SUST_VIABILITY_INNOVATION_INDEX_MIN)
              + Bit(c.customer_satisfaction > SUST_VIABILITY_CUSTOMER_SATISFACTION_MIN)
        viability_score == (viability_factors_met * MAX_ATTRIBUTE_SCORE) \div 5
        sustainability_score ==
            (c.environmental_impact * 3 + c.csr_rating * 3
               + c.employee_satisfaction * 2 + viability_score * 2) \div 10
    IN [c EXCEPT
          !.financial_score = financial_score,
          !.market_score = market_score,
          !.innovation_score = innovation_score,
          !.sustainability_score = sustainability_score,
          !.score =
              c.score +
              (financial_score * 4 + market_score * 3
                 + innovation_score * 2 + sustainability_score * 1) \div 10]

\* company.py 346-415: Company.calculate_score; the weights (0.3, 0.3, 0.2,
\* 0.2 and so on) are written in tenths
calculate_score(c) ==
    LET revenue_score ==
            Min(MAX_ATTRIBUTE_SCORE, (c.revenue * 100) \div FIN_SCORE_REVENUE_SCALE_DIVISOR)
        profit_score == Clamp100(c.profit_margin * FIN_SCORE_PROFIT_MARGIN_MULTIPLIER * 100)
        roi_score == Clamp100(c.roi * 100)
        capital_score ==
            Min(MAX_ATTRIBUTE_SCORE, (c.capital * 100) \div FIN_SCORE_CAPITAL_SCALE_DIVISOR)
        financial_score ==
            IF c.revenue > 0
            THEN (revenue_score * 3 + profit_score * 3 + roi_score * 2 + capital_score * 2) \div 10
            ELSE MIN_ATTRIBUTE_SCORE
        market_share_score == Clamp100(c.market_share)
        active_products == Cardinality({s \in Segments : c.products[s].active})
        portfolio_score == (active_products * MAX_ATTRIBUTE_SCORE) \div Cardinality(Segments)
        market_score ==
            (market_share_score * 4 + c.brand_strength * 3
               + c.customer_satisfaction * 2 + portfolio_score * 1) \div 10
        patent_score == Min(MAX_ATTRIBUTE_SCORE, c.patent_portfolio)
        growth_potential ==
            Min(MAX_ATTRIBUTE_SCORE, (c.r_d_capability + c.innovation_index) \div 2)
        innovation_score ==
            (patent_score * 3 + c.innovation_index * 3
               + c.r_d_effectiveness * 2 + growth_potential * 2) \div 10
        viability_factors_met ==
            Bit(c.profit_margin > SUST_VIABILITY_PROFIT_MARGIN_MIN)
              + Bit(c.capital > SUST_VIABILITY_CAPITAL_MIN)
              + Bit(c.market_share > SUST_VIABILITY_MARKET_SHARE_MIN)
              + Bit(c.innovation_index > SUST_VIABILITY_INNOVATION_INDEX_MIN)
              + Bit(c.customer_satisfaction > SUST_VIABILITY_CUSTOMER_SATISFACTION_MIN)
        viability_score == (viability_factors_met * MAX_ATTRIBUTE_SCORE) \div 5
        sustainability_score ==
            (c.environmental_impact * 3 + c.csr_rating * 3
               + c.employee_satisfaction * 2 + viability_score * 2) \div 10
    IN [c EXCEPT
          !.financial_score = financial_score,
          !.market_score = market_score,
          !.innovation_score = innovation_score,
          !.sustainability_score = sustainability_score,
          !.score =
              (financial_score * 4 + market_score * 3
                 + innovation_score * 2 + sustainability_score * 1) \div 10]

\* company.py 417-460: Company.get_state, every attribute but the decision history
get_state(c) == [f \in DOMAIN c \ {"decisions_history"} |-> c[f]]

\* ------------------------------------------------------------------- Market
INITIAL_TOTAL_MARKET_SIZE == 10000
\* INITIAL_MARKET_GROWTH_RATE is 0.05 a year: 1/10000
INITIAL_MARKET_GROWTH_RATE == 500
QUARTERLY_GROWTH_DIVISOR == 4
MID_GAME_SHIFT_ROUND == 5
LATE_GAME_SHIFT_ROUND == 8
PREMIUM_SEGMENT_GROWTH_MID_GAME == 100
MID_RANGE_SEGMENT_SHRINK_MID_GAME == 50
BUDGET_SEGMENT_SHRINK_MID_GAME == 50
\* trends are kept in thousandths
INNOVATION_PREFERENCE_BOOST_LATE_GAME == 100
SUSTAINABILITY_IMPORTANCE_BOOST_LATE_GAME == 100
TREND_VALUE_MIN_BOUND == 100
TREND_VALUE_MAX_BOUND == 900
MARKETING_EFFECTIVENESS_BUDGET_CAP == 50000

\* market.py 16-32: DEFAULT_SEGMENTS_CONFIG; the importances and the price
\* sensitivity are exponents, in tenths
DEFAULT_SEGMENTS_CONFIG ==
    [s \in Segments |->
       CASE s = "premium" ->
              [size |-> 2000, price_sensitivity |-> 3, quality_importance |-> 8,
               feature_importance |-> 9, brand_importance |-> 7,
               price_range |-> <<699, 1499>>]
         [] s = "mid_range" ->
              [size |-> 5000, price_sensitivity |-> 6, quality_importance |-> 6,
               feature_importance |-> 6, brand_importance |-> 5,
               price_range |-> <<299, 699>>]
         [] OTHER ->
              [size |-> 3000, price_sensitivity |-> 9, quality_importance |-> 4,
               feature_importance |-> 3, brand_importance |-> 3,
               price_range |-> <<99, 299>>]]

\* market.py 105-119: Market(). Of the trends the two that enter a settlement
\* are kept; the other trends and the external factors only feed the report.
Market ==
    [current_round |-> 0,
     total_market_size |-> INITIAL_TOTAL_MARKET_SIZE,
     market_growth_rate |-> INITIAL_MARKET_GROWTH_RATE,
     segments |-> DEFAULT_SEGMENTS_CONFIG,
     trends |-> [innovation_preference |-> 500, sustainability_importance |-> 400]]

\* market.py 139-148: the segment sizes divided by their sum, left alone when
\* the sum is not positive
NormalizeSegments(segments) ==
    LET total == SumOver(Segments, [s \in Segments |-> segments[s].size])
    IN IF total > 0
       THEN [s \in Segments |->
               [segments[s] EXCEPT !.size = (segments[s].size * 10000) \div total]]
       ELSE segments

ClampTrend(v) == Max(TREND_VALUE_MIN_BOUND, Min(TREND_VALUE_MAX_BOUND, v))

\* market.py 121-169: Market.update_market_conditions(round_number); draws
\* holds the random.uniform change of each kept trend, in thousandths
update_market_conditions(market, round_number, draws) ==
    LET grown ==
            (market.total_market_size
               * (10000 * QUARTERLY_GROWTH_DIVISOR + market.market_growth_rate))
                \div (10000 * QUARTERLY_GROWTH_DIVISOR)
        shifted ==
            IF round_number > MID_GAME_SHIFT_ROUND
            THEN [s \in Segments |->
                    [market.segments[s] EXCEPT !.size =
                       CASE s = "premium" -> @ + PREMIUM_SEGMENT_GROWTH_MID_GAME
                         [] s = "mid_range" -> @ - MID_RANGE_SEGMENT_SHRINK_MID_GAME
                         [] OTHER -> @ - BUDGET_SEGMENT_SHRINK_MID_GAME]]
            ELSE market.segments
        late == round_number > LATE_GAME_SHIFT_ROUND
    IN [market EXCEPT
          !.current_round = round_number,
          !.total_market_size = grown,
          !.segments = NormalizeSegments(shifted),
          !.trends =
              [innovation_preference |->
                 IF late
                 THEN Min(TREND_VALUE_MAX_BOUND,
                          market.trends.innovation_preference
                            + INNOVATION_PREFERENCE_BOOST_LATE_GAME)
                 ELSE ClampTrend(market.trends.innovation_preference + draws.innovation),
               sustainability_importance |->
                 IF late
                 THEN Min(TREND_VALUE_MAX_BOUND,
                          market.trends.sustainability_importance
                            + SUSTAINABILITY_IMPORTANCE_BOOST_LATE_GAME)
                 ELSE ClampTrend(market.trends.sustainability_importance
                                   + draws.sustainability)]]

\* x ** (e/10) for x in thousandths, by linear interpolation between the values
\* at 0, 1/16, 1/4 and 1 (market.py 206-215 raises scores to the importances)
QuarterPow(e) ==
    CASE e = 3 -> 660 [] e = 4 -> 574 [] e = 5 -> 500 [] e = 6 -> 435
      [] e = 7 -> 379 [] e = 8 -> 330 [] e = 9 -> 287 [] OTHER -> 250

Pow(x, e) ==
    LET q == QuarterPow(e)
        q2 == (q * q) \div 1000
    IN IF x <= 0 THEN 0
       ELSE IF x <= 62 THEN (q2 * x) \div 62
       ELSE IF x <= 250 THEN q2 + ((q - q2) * (x - 62)) \div 188
       ELSE IF x <= 1000 THEN q + ((1000 - q) * (x - 250)) \div 750
       ELSE 1000 + (e * (x - 1000)) \div 10


\* market.py 197-232: the attractiveness of a company's product in a segment,
\* in 1/100000 (scores in thousandths times weights in hundredths)
Attractiveness(market, company, segment) ==
    LET info == market.segments[segment]
        product == company.products[segment]
        lo == info.price_range[1]
        hi == info.price_range[2]
        price_position ==
            IF hi - lo > 0
            THEN Max(0, Min(1000, ((hi - product.price) * 1000) \div (hi - lo)))
            ELSE 500
        price_score == Pow(price_position, info.price_sensitivity)
        quality_score == Pow(product.quality * 10, info.quality_importance)
        feature_score == Pow(product.features * 10, info.feature_importance)
        brand_score == Pow(company.brand_strength \div 10, info.brand_importance)
        marketing_effectiveness ==
            Min(1000, (product.marketing_budget * 1000) \div MARKETING_EFFECTIVENESS_BUDGET_CAP)
        innovation_bonus ==
            ((company.innovation_index \div 10) * market.trends.innovation_preference) \div 1000
        sustainability_bonus ==
            ((company.environmental_impact \div 10) * market.trends.sustainability_importance)
                \div 1000
    IN [price_score |-> price_score,
        quality_score |-> quality_score,
        attractiveness |->
            price_score * 30 + quality_score * 25 + feature_score * 20 + brand_score * 15
              + marketing_effectiveness * 10 + innovation_bonus * 5 + sustainability_bonus * 5]

\* a variant of Competing that takes every company as a competitor
Competing_Any(companies, segment) == DOMAIN companies

\* market.py 182-186: the companies that compete in a segment
Competing(companies, segment) ==
    {t \in DOMAIN companies :
       companies[t].products[segment].active
         /\ companies[t].products[segment].production_volume > 0}

\* a variant of CompanyOutcome that sells the company's part of the demand
\* whatever its production volume is
CompanyOutcome_Unclamped(product, score, share, segment_units) ==
    [units_sold |-> (segment_units * share) \div 10000,
     revenue |-> ((segment_units * share) \div 10000) * product.price,
     market_share |-> share,
     satisfaction_change |-> 0]

\* market.py 245-277: the sales and the satisfaction change of a company in a
\* segment of segment_units units, given its share of the segment and the
\* scores the loop holds
CompanyOutcome(product, score, share, segment_units) ==
    [units_sold |-> Min((segment_units * share) \div 10000, product.production_volume),
     revenue |->
         Min((segment_units * share) \div 10000, product.production_volume) * product.price,
     market_share |-> share,
     satisfaction_change |->
         ((score.price_score - 500) * 3
            + (score.quality_score - 500) * 5
            + ((IF (segment_units * share) \div 10000 > 0
                THEN Min(1000, (product.production_volume * 1000)
                                  \div ((segment_units * share) \div 10000))
                ELSE 1000) - 500) * 2 * 2) \div 20]

\* market.py 225-234: the shares of a segment: attractiveness over the total,
\* equal shares when the total is zero
ShareOf(att, total_attractiveness, t) ==
    IF total_attractiveness > 0
    THEN (att[t].attractiveness * 10000) \div total_attractiveness
    ELSE 10000 \div Cardinality(DOMAIN att)

\* market.py 196-232: the company the loop over the competitors visits last,
\* the teams being kept in the order of their ids
LastCompetitor(att) == CHOOSE t \in DOMAIN att : \A u \in DOMAIN att : u <= t

\* market.py 245-277: the loop over the shares; price_score and quality_score
\* (market.py 264-265) are still those of the last competitor of the loop
\* before it
SegmentShares(att, total_attractiveness, companies, segment, segment_units) ==
    [t \in DOMAIN att |->
       CompanyOutcome(companies[t].products[segment], att[LastCompetitor(att)],
                      ShareOf(att, total_attractiveness, t), segment_units)]

TotalAttractiveness(att) == SumOver(DOMAIN att, [t \in DOMAIN att |-> att[t].attractiveness])

SegmentSettlement(att, market, companies, segment) ==
    SegmentShares(att, TotalAttractiveness(att), companies, segment,
                  (market.total_market_size * market.segments[segment].size) \div 10000)

\* market.py 181-277: the settlement of one segment, per competing company
SegmentOutcome(market, companies, segment) ==
    SegmentSettlement(
        Evaluated([t \in Competing(companies, segment) |->
                     Attractiveness(market, companies[t], segment)]),
        market, companies, segment)

SegmentsOf(outcome, t) == {s \in Segments : t \in DOMAIN outcome[s]}

\* a variant of CompanyResults whose market share is the mean of the shares
\* the company has of its segments
CompanyResults_SegmentMean(outcome, t, segs, total_market_size) ==
    [sales |->
       [s \in segs |->
          [units_sold |-> outcome[s][t].units_sold,
           revenue |-> outcome[s][t].revenue,
           market_share |-> outcome[s][t].market_share]],
     market_share |->
       SumOver(segs, [s \in segs |-> outcome[s][t].market_share]) \div Cardinality(segs),
     customer_satisfaction_change |->
       SumOver(segs, [s \in segs |-> outcome[s][t].satisfaction_change])]

\* market.py 250-293: the results entry of a company that competes in segs
CompanyResults(outcome, t, segs, total_market_size) ==
    [sales |->
       [s \in segs |->
          [units_sold |-> outcome[s][t].units_sold,
           revenue |-> outcome[s][t].revenue,
           market_share |-> outcome[s][t].market_share]],
     market_share |->
       IF total_market_size > 0
       THEN (SumOver(segs, [s \in segs |-> outcome[s][t].units_sold]) * 10000)
               \div total_market_size
       ELSE 0,
     customer_satisfaction_change |->
       SumOver(segs, [s \in segs |-> outcome[s][t].satisfaction_change])]

ResultsOf(outcome, market, companies) ==
    [t \in {u \in DOMAIN companies : SegmentsOf(outcome, u) # {}} |->
       CompanyResults(outcome, t, SegmentsOf(outcome, t), market.total_market_size)]

\* market.py 171-293: Market.calculate_market_results(companies); only a
\* company that competes in some segment gets an entry
calculate_market_results(market, companies) ==
    ResultsOf(Evaluated([s \in Segments |-> SegmentOutcome(market, companies, s)]),
              market, companies)

\* ------------------------------------------------------------------- Events
\* events.py 128-287: the templates of generate_random_event, numbered in the
\* order of the list. Kept are the impacts on modelled state: sizes and capital
\* and capacity in percent, trends in thousandths, attributes in hundredths of
\* a point, market_share in 1/10000.
EventTemplates ==
    <<[market |-> [innovation_preference |-> 100], companies |-> [r_d_capability |-> 500]],
      [market |-> [innovation_preference |-> 100], companies |-> [innovation_index |-> 500]],
      [market |-> [segment_budget |-> 15, segment_premium |-> -10],
       companies |-> [capital |-> -5]],
      [market |-> [segment_premium |-> 15, segment_budget |-> -10],
       companies |-> [capital |-> 5]],
      [market |-> [sustainability_importance |-> 150],
       companies |-> [environmental_impact |-> -1000]],
      [market |-> EmptyDict, companies |-> [r_d_capability |-> -500]],
      [market |-> [total_market_size |-> -10], companies |-> [production_capacity |-> -15]],
      [market |-> EmptyDict, companies |-> [production_capacity |-> 10]],
      [market |-> EmptyDict, companies |-> [customer_satisfaction |-> 500]],
      [market |-> [segment_premium |-> 5], companies |-> [innovation_index |-> 500]],
      [market |-> [total_market_size |-> 5, innovation_preference |-> 100],
       companies |-> [market_share |-> -500, brand_strength |-> -500]],
      [market |-> [total_market_size |-> -5], companies |-> [market_share |-> 500]]>>

LATE_GAME_EVENT_ROUND_THRESHOLD == 5

SegmentArea(s) ==
    CASE s = "premium" -> "segment_premium"
      [] s = "mid_range" -> "segment_mid_range"
      [] OTHER -> "segment_budget"

\* events.py 33-69: the market part of Event.apply_impact
ApplyMarketImpact(market, impacts) ==
    LET scaled ==
            [s \in Segments |->
               [market.segments[s] EXCEPT
                  !.size = (@ * (100 + Get(impacts, SegmentArea(s), 0))) \div 100]]
        total == SumOver(Segments, [s \in Segments |-> scaled[s].size])
        normalized ==
            IF \A s \in Segments : SegmentArea(s) \notin DOMAIN impacts THEN market.segments
            ELSE IF total > 0
            THEN [s \in Segments |-> [scaled[s] EXCEPT !.size = (@ * 10000) \div total]]
            ELSE [s \in Segments |-> [scaled[s] EXCEPT !.size = 10000 \div Cardinality(Segments)]]
    IN [market EXCEPT
          !.total_market_size = (@ * (100 + Get(impacts, "total_market_size", 0))) \div 100,
          !.market_growth_rate = @ + Get(impacts, "market_growth_rate", 0),
          !.segments = normalized,
          !.trends =
              [a \in DOMAIN market.trends |->
                 IF a \in DOMAIN impacts
                 THEN ClampTrend(market.trends[a] + impacts[a])
                 ELSE market.trends[a]]]

\* events.py 72-99: the impacts of an event on one company
ApplyCompanyImpact(c, impacts) ==
    LET add(f) == IF f \in DOMAIN impacts THEN Clamp100(c[f] + impacts[f]) ELSE c[f]
    IN [c EXCEPT
          !.capital = (@ * (100 + Get(impacts, "capital", 0))) \div 100,
          !.production_capacity = (@ * (100 + Get(impacts, "production_capacity", 0))) \div 100,
          !.r_d_capability = add("r_d_capability"),
          !.brand_strength = add("brand_strength"),
          !.quality_control = add("quality_control"),
          !.customer_satisfaction = add("customer_satisfaction"),
          !.innovation_index = add("innovation_index"),
          !.environmental_impact = add("environmental_impact"),
          !.market_share = add("market_share")]

\* events.py 31-99: Event.apply_impact(game_state); the templates name their
\* company impacts under "all"
apply_impact(event, g) ==
    LET template == EventTemplates[event.template]
    IN [g EXCEPT
          !.market = ApplyMarketImpact(g.market, template.market),
          !.teams =
              Evaluated([t \in DOMAIN g.teams |->
                           ApplyCompanyImpact(g.teams[t], template.companies)])]


\* ---------------------------------------------------------------- GameState
\* The random draws of one start_new_round: the templates random.choice picks
\* and the random.uniform changes of the trends.
\* templates explored out of EventTemplates: a technology breakthrough, the
\* economic downturn and the component shortage
ExploredTemplates == {1, 3, 7}
\* explored values of random.uniform(-0.05, 0.05), in thousandths
UniformDraws == {-50, 50}

\* game_state.py 141: num_events
NumEvents(current_round) == IF current_round < 5 THEN 1 ELSE 2

\* the draws of a start_new_round entered in round current_round; none are
\* made when the call returns at once (game_state.py 70-72)
NoDraws == [events |-> <<>>, innovation |-> 0, sustainability |-> 0]

DrawsAt(num_rounds, current_round) ==
    IF current_round >= num_rounds THEN {NoDraws}
    ELSE [events : [1..NumEvents(current_round) -> ExploredTemplates],
          innovation : UniformDraws,
          sustainability : UniformDraws]

\* game_state.py 15-61: GameState(num_teams, num_rounds) after
\* initialize_game(); codes[i] is the i-th code _generate_code returns
initialize_game(num_teams, num_rounds, codes) ==
    [num_teams |-> num_teams,
     num_rounds |-> num_rounds,
     current_round |-> 1,
     teams |-> [t \in 1..num_teams |-> Company(t)],
     market |-> Market,
     events |-> <<>>,
     round_results |-> EmptyDict,
     started |-> TRUE,
     finished |-> FALSE,
     team_codes |-> [t \in 1..num_teams |-> codes[t]],
     admin_code |-> codes[num_teams + 1]]

\* game_state.py 136-150: GameState._generate_events
_generate_events(g, draws) ==
    [i \in 1..NumEvents(g.current_round) |->
       [round |-> g.current_round, template |-> draws.events[i]]]

RECURSIVE ApplyEvents(_, _)
ApplyEvents(g, new_events) ==
    IF new_events = <<>> THEN g
    ELSE ApplyEvents(IF new_events[1].round = g.current_round
                     THEN apply_impact(new_events[1], g)
                     ELSE g,
                     Tail(new_events))

\* game_state.py 86-88: the market moved to the game's round
UpdateMarket(g, draws) ==
    [g EXCEPT !.market = update_market_conditions(@, g.current_round, draws)]

\* game_state.py 74-84: the round's events generated, listed and applied
RunEvents(g, new_events_this_round) ==
    ApplyEvents([g EXCEPT !.events = @ \o new_events_this_round], new_events_this_round)

\* game_state.py 68-90: GameState.start_new_round
start_new_round(g, draws) ==
    IF g.current_round >= g.num_rounds
    THEN [g EXCEPT !.finished = TRUE]
    ELSE UpdateMarket(RunEvents(g, _generate_events(g, draws)), draws)

\* game_state.py 118-121: every company settled against the market results
SettleCompanies(g, market_results) ==
    [g EXCEPT !.teams =
       Evaluated([t \in DOMAIN g.teams |->
                    calculate_score(
                      update_financials(g.teams[t], Get(market_results, t, EmptyDict)))])]

\* game_state.py 123-130: the results stored under the current round, and
\* the round counter advanced
StoreRoundResults(settled, market_results) ==
    [settled EXCEPT
       !.round_results[settled.current_round] =
           Put(Put(@, "market_results", market_results),
               "company_states",
               [t \in DOMAIN settled.teams |-> get_state(settled.teams[t])]),
       !.current_round = @ + 1]

\* game_state.py 129-134: the next round started, or the game finished
StartOrFinish(stored, draws) ==
    IF stored.current_round <= stored.num_rounds
    THEN start_new_round(stored, draws)
    ELSE [stored EXCEPT !.finished = TRUE]

SettleRound(g, market_results, draws) ==
    IF g.current_round \notin DOMAIN g.round_results
    THEN [game |-> SettleCompanies(g, market_results), raised |-> TRUE]
    ELSE [game |->
            StartOrFinish(
                StoreRoundResults(SettleCompanies(g, market_results), market_results),
                draws),
          raised |-> FALSE]

\* game_state.py 113-134: GameState._finalize_round. Without a results entry
\* for the current round line 124 raises KeyError after the companies have
\* been settled: raised tells the two outcomes apart.
_finalize_round(g, draws) ==
    SettleRound(g, Evaluated(calculate_market_results(g.market, g.teams)), draws)

\* game_state.py 97-99: the company's decisions processed
ApplyDecisions(g, team_id, decisions) ==
    [g EXCEPT !.teams[team_id] = Evaluated(process_decisions(@, decisions, g.market))]

\* game_state.py 101-105: the team marked as having submitted this round
RecordSubmission(g, team_id) ==
    [g EXCEPT !.round_results =
       Put(@, g.current_round,
           [Get(g.round_results, g.current_round, [submissions |-> <<>>])
              EXCEPT !.submissions = Append(@, team_id)])]

\* a variant of CheckAllSubmitted that finalizes one submission early
CheckAllSubmitted_Early(g, draws) ==
    IF Len(g.round_results[g.current_round].submissions) >= g.num_teams - 1
    THEN _finalize_round(g, draws).game
    ELSE g

\* game_state.py 107-109: the round finalized once the list is as long as the roster
CheckAllSubmitted(g, draws) ==
    IF Len(g.round_results[g.current_round].submissions) = g.num_teams
    THEN _finalize_round(g, draws).game
    ELSE g

\* game_state.py 92-111: GameState.process_team_decisions(team_id, decisions)
process_team_decisions(g, team_id, decisions, draws) ==
    IF team_id \notin DOMAIN g.teams THEN [game |-> g, ok |-> FALSE]
    ELSE [game |->
            CheckAllSubmitted(
                RecordSubmission(ApplyDecisions(g, team_id, decisions), team_id), draws),
          ok |-> TRUE]

\* the submission list of the current round (main.py 155-157 and 309-311)
Submissions(g) == Get(g.round_results, g.current_round, [submissions |-> <<>>]).submissions

InList(x, list) == \E i \in 1..Len(list) : list[i] = x


\* -------------------------------------------------------------- persistence
\* company.py 462-495 and 497-543: Company.to_dict and Company.from_dict copy
\* every attribute; an empty products dict is replaced by the defaults
Company_to_dict(c) == [f \in DOMAIN Company(0) |-> c[f]]

Company_from_dict(data) ==
    [f \in DOMAIN Company(0) |->
       IF f = "products" /\ DOMAIN data[f] = {} THEN DEFAULT_PRODUCTS_CONFIG ELSE data[f]]

\* market.py 345-366: Market.to_dict and Market.from_dict
Market_to_dict(m) ==
    [current_round |-> m.current_round,
     total_market_size |-> m.total_market_size,
     market_growth_rate |-> m.market_growth_rate,
     segments |-> m.segments,
     trends |-> m.trends]

Market_from_dict(data) ==
    [current_round |-> data.current_round,
     total_market_size |-> data.total_market_size,
     market_growth_rate |-> data.market_growth_rate,
     segments |-> data.segments,
     trends |-> data.trends]

\* game_state.py 262-346: GameState.to_dict
to_dict(g) ==
    [num_teams |-> g.num_teams,
     num_rounds |-> g.num_rounds,
     current_round |-> g.current_round,
     started |-> g.started,
     finished |-> g.finished,
     teams |-> [t \in DOMAIN g.teams |-> Company_to_dict(g.teams[t])],
     market |-> Market_to_dict(g.market),
     events |-> g.events,
     round_results |-> g.round_results,
     team_codes |-> g.team_codes,
     admin_code |-> g.admin_code]

\* game_state.py 348-416: GameState.from_dict
from_dict(state_dict) ==
    Evaluated(
    [num_teams |-> state_dict.num_teams,
     num_rounds |-> state_dict.num_rounds,
     current_round |-> state_dict.current_round,
     teams |-> [t \in DOMAIN state_dict.teams |-> Company_from_dict(state_dict.teams[t])],
     market |-> Market_from_dict(state_dict.market),
     events |-> state_dict.events,
     round_results |-> state_dict.round_results,
     started |-> state_dict.started,
     finished |-> state_dict.finished,
     team_codes |-> state_dict.team_codes,
     admin_code |-> state_dict.admin_code])

\* file_pickle_persistence.py 262-291: GameStateManager.verify_admin compares
\* with the admin code the last save indexed (lines 188-191)
verify_admin(state_dict, admin_code) == state_dict.admin_code = admin_code

\* ----------------------------------------------------------------- handlers
\* A handler run on the loaded game: the game it leaves, whether it saved it
\* (GameStateManager.save_game_state), and its response.
Response(g, saved, status, error) ==
    [game |-> g, saved |-> saved, status |-> status, error |-> error]

\* a variant of AlreadyFinished that lets a finished game through
AlreadyFinished_Never(game_state) == FALSE

\* main.py 303-306 and 134-141: the handlers turn a finished game away
AlreadyFinished(game_state) == game_state.finished

\* a variant of AlreadySubmitted that lets a second submission through
AlreadySubmitted_Never(game_state, team_id) == FALSE

\* main.py 308-319: the team is in the submission list of the current round
AlreadySubmitted(game_state, team_id) == InList(team_id, Submissions(game_state))


\* main.py 143-144: the game has reached its last round
AtFinalRound(game_state) == game_state.current_round >= game_state.num_rounds

\* main.py 277-362: submit_decisions on the loaded game_state
submit_decisions(game_state, team_id, team_code, decisions, draws) ==
    IF team_id \notin DOMAIN game_state.teams
    THEN Response(game_state, FALSE, 404, "Team not found")
    ELSE IF game_state.team_codes[team_id] # team_code
    THEN Response(game_state, FALSE, 403, "Invalid team code")
    ELSE IF AlreadyFinished(game_state)
    THEN Response(game_state, FALSE, 400, "Game already finished")
    ELSE IF AlreadySubmitted(game_state, team_id)
    THEN Response(game_state, FALSE, 400, "Team already submitted decisions for this round")
    ELSE IF DOMAIN decisions = {}
    THEN Response(game_state, FALSE, 400, "No decisions provided")
    ELSE Response(process_team_decisions(game_state, team_id, decisions, draws).game,
                  TRUE, 200, "")

\* main.py 178-182: the empty decisions processed for the teams that have not
\* submitted, in the order of game_state.teams; submissions is the list read
\* at line 157
RECURSIVE ProcessMissing(_, _, _, _)
ProcessMissing(g, team_ids, submissions, draws) ==
    IF team_ids = <<>> THEN g
    ELSE ProcessMissing(IF InList(team_ids[1], submissions) THEN g
                        ELSE process_team_decisions(g, team_ids[1], EmptyDict, draws).game,
                        Tail(team_ids), submissions, draws)

TeamOrder(g) == [i \in 1..Cardinality(DOMAIN g.teams) |-> i]

\* main.py 184-195: the round counter moved on, the new round started, and
\* the game marked finished when the new round is the last
MoveToNextRound(g, draws) ==
    [start_new_round([g EXCEPT !.current_round = @ + 1], draws)
       EXCEPT !.finished = IF g.current_round + 1 >= g.num_rounds THEN TRUE ELSE @]

\* main.py 177-195
ProcessEmptyDecisions(game_state, draws) ==
    IF Len(Submissions(game_state)) # Cardinality(DOMAIN game_state.teams)
    THEN ProcessMissing(game_state, TeamOrder(game_state), Submissions(game_state), draws)
    ELSE game_state

\* main.py 106-214: advance_round on the loaded game_state; draws1 are the
\* draws of the start_new_round _finalize_round calls, draws2 those of the
\* start_new_round of line 194
advance_round(game_state, admin_ok, force, draws1, draws2) ==
    IF ~admin_ok
    THEN Response(game_state, FALSE, 403, "Invalid admin credentials")
    ELSE IF AlreadyFinished(game_state)
    THEN Response(game_state, FALSE, 400, "Game already finished")
    ELSE IF AtFinalRound(game_state)
    THEN Response([game_state EXCEPT !.finished = TRUE], TRUE, 400,
                  "Game already at final round")
    ELSE IF Len(Submissions(game_state)) # Cardinality(DOMAIN game_state.teams) /\ ~force
    THEN Response(game_state, FALSE, 400, "Not all teams have submitted decisions")
    ELSE Response(MoveToNextRound(ProcessEmptyDecisions(game_state, draws1), draws2),
                  TRUE, 200, "")

\* ------------------------------------------------------------------- inputs
\* Largest num_rounds of a game driven by direct GameState calls.
MaxEngineRounds == 2
\* Number of web requests served while requests overlap.
MaxRequests == 3

\* decision payloads: the empty payload, an R&D and operations payload, and a
\* products payload that withdraws one product and reprices another
RDPayload ==
    [r_d |-> [budget |-> 50000, focus |-> [camera |-> 20]],
     operations |-> [capacity_investment |-> 100000]]

ProductsPayload ==
    [products |->
       <<<<"premium", [active |-> FALSE]>>,
         <<"budget", [price |-> 149, production_volume |-> 400, marketing_budget |-> 15000]>>>>]

Payloads == {EmptyDict, RDPayload, ProductsPayload}

\* the codes _generate_code hands out: team t gets code t, the admin the next
IssuedCodes == [i \in 1..(NumTeams + 1) |-> i]
\* the codes a request may present: the one issued, or some other string
PresentedCodes(issued_code) == {issued_code, 0}
TeamCode(team_id) == IF team_id \in Teams THEN IssuedCodes[team_id] ELSE 0
AdminCode == IssuedCodes[NumTeams + 1]

\* what is remembered of a call: the team and the emptiness of the payload
\* are recorded for the calls that succeed
Call(op, team_id, status, error, empty) ==
    [op |-> op,
     team |-> IF status = 200 THEN team_id ELSE 0,
     status |-> status,
     error |-> error,
     empty |-> status = 200 /\ empty]

\* the draws a completing submission consumes
SubmitDraws(g) ==
    IF Len(Submissions(g)) + 1 = g.num_teams
    THEN DrawsAt(g.num_rounds, g.current_round + 1)
    ELSE {NoDraws}

\* the rounds an execution settled: those with market results afterwards and
\* none before
HasResults(g, r) ==
    r \in DOMAIN g.round_results /\ "market_results" \in DOMAIN g.round_results[r]

FinalizedBy(before, after) ==
    {r \in DOMAIN after.round_results : HasResults(after, r) /\ ~HasResults(before, r)}

\* -------------------------------------------------------------------- state
VARIABLES
    store,   \* the persisted state dict of the game (GameStateManager)
    game,    \* a GameState object driven by direct calls
    req,     \* per worker: the web request it is serving and the game it loaded
    last,    \* the last call made and its response
    acked,   \* <<team, round>> of the submissions answered with success
    fin,     \* per round, the number of saved executions that settled it
    issued   \* number of overlapping web requests started

vars == <<store, game, req, last, acked, fin, issued>>

Idle == [pc |-> "idle"]

NoCall == [op |-> "none", team |-> 0, status |-> 0, error |-> "", empty |-> FALSE]

InitWith(num_rounds) ==
    /\ store = to_dict(initialize_game(NumTeams, num_rounds, IssuedCodes))
    /\ game = initialize_game(NumTeams, num_rounds, IssuedCodes)
    /\ req = [w \in Workers |-> Idle]
    /\ last = NoCall
    /\ acked = {}
    /\ fin = [r \in 1..(MaxRounds + 2) |-> 0]
    /\ issued = 0

\* ------------------------------------------- web requests served one by one
\* main.py 37-38: create_game takes num_rounds from the request as it is, so a
\* game of zero rounds is created like any other
RoundCounts == 0..MaxRounds

Init == \E num_rounds \in RoundCounts : InitWith(num_rounds)

\* the handler's response returned, the game saved when the handler saved it
Served(op, team_id, empty, resp) ==
    /\ store' = IF resp.saved THEN to_dict(resp.game) ELSE store
    /\ last' = Call(op, team_id, resp.status, resp.error, empty)

SubmitLoaded(game_state, team_id, team_code, decisions) ==
    \E draws \in SubmitDraws(game_state) :
       Served("submit_decisions", team_id, DOMAIN decisions = {},
              submit_decisions(game_state, team_id, team_code, decisions, draws))

SubmitDecisions(team_id, team_code, decisions) ==
    /\ SubmitLoaded(from_dict(store), team_id, team_code, decisions)
    /\ UNCHANGED <<game, req, acked, fin, issued>>

AdvanceLoaded(game_state, admin_ok, force) ==
    \E draws1 \in DrawsAt(game_state.num_rounds, game_state.current_round + 1),
       draws2 \in DrawsAt(game_state.num_rounds, game_state.current_round + 2) :
       Served("advance_round", 0, FALSE,
              advance_round(game_state, admin_ok, force, draws1, draws2))

AdvanceRound(admin_code, force) ==
    /\ AdvanceLoaded(from_dict(store), verify_admin(store, admin_code), force)
    /\ UNCHANGED <<game, req, acked, fin, issued>>

Next ==
    \/ \E t \in RequestTeams, d \in Payloads :
         \E c \in PresentedCodes(TeamCode(t)) : SubmitDecisions(t, c, d)
    \/ \E c \in PresentedCodes(AdminCode), force \in BOOLEAN : AdvanceRound(c, force)

Spec == Init /\ [][Next]_vars

\* ------------------------------------------------ direct GameState calls
InitEngine == \E num_rounds \in 1..MaxEngineRounds : InitWith(num_rounds)

\* the object after a direct call; fin counts the settlements run for a round
Called(op, team_id, empty, res) ==
    /\ game' = res.game
    /\ last' = Call(op, team_id, IF res.ok THEN 200 ELSE 404, "", empty)
    /\ fin' = [r \in DOMAIN fin |->
                 fin[r] + Cardinality(FinalizedBy(game, res.game) \cap {r})]

Finalized(res) ==
    /\ game' = res.game
    /\ last' = Call("_finalize_round", 0, IF res.raised THEN 500 ELSE 200,
                     IF res.raised THEN "KeyError" ELSE "", FALSE)
    /\ fin' = [fin EXCEPT ![game.current_round] = @ + 1]

ProcessTeamDecisions(team_id, decisions) ==
    /\ game.current_round <= game.num_rounds
    /\ \E draws \in SubmitDraws(game) :
         Called("process_team_decisions", team_id, DOMAIN decisions = {},
                process_team_decisions(game, team_id, decisions, draws))
    /\ UNCHANGED <<store, req, acked, issued>>

\* _finalize_round is called directly at most once in a round
FinalizeRound ==
    /\ game.current_round <= game.num_rounds
    /\ fin[game.current_round] = 0
    /\ \E draws \in DrawsAt(game.num_rounds, game.current_round + 1) :
         Finalized(_finalize_round(game, draws))
    /\ UNCHANGED <<store, req, acked, issued>>

NextEngine ==
    \/ \E t \in RequestTeams, d \in Payloads : ProcessTeamDecisions(t, d)
    \/ FinalizeRound

SpecEngine == InitEngine /\ [][NextEngine]_vars

\* ------------------------------------------------ overlapping web requests
\* Each worker serves one request at a time in two steps, as the handlers do:
\* it loads the game (load_game_state), then runs the handler on its copy and
\* saves it (save_game_state overwrites the stored dict, file_pickle_persistence
\* 172-207). The requests present the code issued to them.
InitConc == \E num_rounds \in 1..MaxRounds : InitWith(num_rounds)

Loaded(op, team_id, team_code, decisions, admin_ok, force) ==
    [pc |-> "loaded", op |-> op, team |-> team_id, code |-> team_code,
     decisions |-> decisions, admin_ok |-> admin_ok, force |-> force,
     game |-> from_dict(store)]

LoadSubmit(w, team_id, decisions) ==
    /\ issued < MaxRequests
    /\ req[w] = Idle
    /\ req' = [req EXCEPT ![w] =
                 Loaded("submit_decisions", team_id, TeamCode(team_id), decisions,
                        FALSE, FALSE)]
    /\ issued' = issued + 1
    /\ UNCHANGED <<store, game, last, acked, fin>>

LoadAdvance(w, force) ==
    /\ issued < MaxRequests
    /\ req[w] = Idle
    /\ req' = [req EXCEPT ![w] =
                 Loaded("advance_round", 0, 0, EmptyDict,
                        verify_admin(store, AdminCode), force)]
    /\ issued' = issued + 1
    /\ UNCHANGED <<store, game, last, acked, fin>>

\* the response of worker w's request sent: the copy saved over the stored
\* dict when the handler saves, the submission acknowledged when it succeeded
Respond(w, r, resp) ==
    /\ store' = IF resp.saved THEN to_dict(resp.game) ELSE store
    /\ acked' = IF r.op = "submit_decisions" /\ resp.status = 200
                THEN acked \cup {<<r.team, r.game.current_round>>}
                ELSE acked
    /\ fin' = [n \in DOMAIN fin |->
                 IF resp.saved /\ n \in FinalizedBy(r.game, resp.game)
                 THEN fin[n] + 1 ELSE fin[n]]
    /\ req' = [req EXCEPT ![w] = Idle]

FinishSubmit(w) ==
    /\ req[w].pc = "loaded"
    /\ req[w].op = "submit_decisions"
    /\ \E draws \in SubmitDraws(req[w].game) :
         Respond(w, req[w],
                 submit_decisions(req[w].game, req[w].team, req[w].code,
                                  req[w].decisions, draws))
    /\ UNCHANGED <<game, last, issued>>

FinishAdvance(w) ==
    /\ req[w].pc = "loaded"
    /\ req[w].op = "advance_round"
    /\ \E draws1 \in DrawsAt(req[w].game.num_rounds, req[w].game.current_round + 1),
          draws2 \in DrawsAt(req[w].game.num_rounds, req[w].game.current_round + 2) :
         Respond(w, req[w],
                 advance_round(req[w].game, req[w].admin_ok, req[w].force, draws1, draws2))
    /\ UNCHANGED <<game, last, issued>>

NextConc ==
    \/ \E w \in Workers, t \in RequestTeams, d \in Payloads : LoadSubmit(w, t, d)
    \/ \E w \in Workers, force \in BOOLEAN : LoadAdvance(w, force)
    \/ \E w \in Workers : FinishSubmit(w)
    \/ \E w \in Workers : FinishAdvance(w)

SpecConc == InitConc /\ [][NextConc]_vars

\* ------------------------------------------- one company, call by call
\* Largest number of calls made on the company.
MaxDecisions == 3

\* decision payloads of one team: R&D budgets within the cash, above it and
\* negative, with focus allocations; product volumes above the capacity with
\* marketing budgets above the cash; operations, corporate, and all sections
RDBasePayload == [r_d |-> [budget |-> 50000, focus |-> [camera |-> 50, marketing |-> 30]]]

RDLargePayload == [r_d |-> [budget |-> 450000]]

RDOverPayload == [r_d |-> [budget |-> 600000, focus |-> [battery |-> -6000]]]

RDNegativePayload == [r_d |-> [budget |-> -600000]]

VolumePayload ==
    [products |->
       <<<<"premium", [production_volume |-> 400, marketing_budget |-> 400000]>>,
         <<"mid_range", [production_volume |-> 300, marketing_budget |-> 200000]>>>>]

OperationsPayload ==
    [operations |-> [capacity_investment |-> 300000, quality_investment |-> 300000]]

CorporatePayload ==
    [corporate |->
       [sustainability_investment |-> 200000, csr_investment |-> 200000,
        employee_investment |-> 200000, brand_investment |-> 200000]]

FullPayload ==
    [r_d |-> [budget |-> 200000],
     products |-> <<<<"budget", [marketing_budget |-> 200000]>>>>,
     operations |-> [capacity_investment |-> 200000],
     corporate |-> [brand_investment |-> 200000]]

MarketingNegativePayload == [products |-> <<<<"budget", [marketing_budget |-> -20000]>>>>]

\* a product withdrawn in a payload that also names its other fields, and a
\* product put back on sale
WithdrawnPayload ==
    [products |->
       <<<<"premium", [active |-> FALSE, price |-> 1, quality |-> 1, features |-> 1,
                       production_volume |-> 1, marketing_budget |-> 50000]>>,
         <<"mid_range", [price |-> 450, marketing_budget |-> 30000]>>>>]

RelaunchPayload ==
    [products |->
       <<<<"premium", [active |-> TRUE, price |-> 899]>>,
         <<"budget", [active |-> FALSE]>>>>]

CompanyPayloads ==
    {EmptyDict, RDBasePayload, RDLargePayload, RDOverPayload, RDNegativePayload,
     VolumePayload, OperationsPayload, CorporatePayload, FullPayload,
     MarketingNegativePayload, WithdrawnPayload, RelaunchPayload}

\* the payload of the team's latest process_decisions call (company.py 167-168)
LastDecisions(g, team_id) == g.teams[team_id].decisions_history[g.market.current_round]

InitCompany == InitWith(1)

\* company.py 164-273: Company.process_decisions called on the company of team_id
DecideCompany(team_id, decisions) ==
    /\ issued < MaxDecisions
    /\ game' = [game EXCEPT !.teams[team_id] =
                  process_decisions(game.teams[team_id], decisions, game.market)]
    /\ last' = Call("process_decisions", team_id, 200, "", DOMAIN decisions = {})
    /\ issued' = issued + 1
    /\ UNCHANGED <<store, req, acked, fin>>

\* game_state.py 115-121: the companies settled against the market results
\* (update_financials and calculate_score)
SettleCompany ==
    /\ issued < MaxDecisions
    /\ game' = SettleCompanies(game, calculate_market_results(game.market, game.teams))
    /\ last' = Call("update_financials", 0, 200, "", FALSE)
    /\ issued' = issued + 1
    /\ UNCHANGED <<store, req, acked, fin>>

\* events.py 31-99: Event.apply_impact of an event of the given template
ImpactCompany(template) ==
    /\ issued < MaxDecisions
    /\ game' = apply_impact([round |-> game.current_round, template |-> template], game)
    /\ last' = Call("apply_impact", 0, 200, "", FALSE)
    /\ issued' = issued + 1
    /\ UNCHANGED <<store, req, acked, fin>>

NextCompany ==
    \/ \E d \in CompanyPayloads : DecideCompany(1, d)
    \/ SettleCompany
    \/ \E e \in DOMAIN EventTemplates : ImpactCompany(e)

SpecCompany == InitCompany /\ [][NextCompany]_vars

\* ------------------------------------ the market and its settlement alone
\* Largest number of calls made on the market and the companies.
MaxMarketSteps == 2

\* product payloads: the budget phone repriced within its segment's price
\* range (99..299) and below it, products withdrawn, a product not produced
PriceLowPayload == [products |-> <<<<"budget", [price |-> 149]>>>>]

PriceHighPayload == [products |-> <<<<"budget", [price |-> 249]>>>>]

PriceBelowRangePayload == [products |-> <<<<"budget", [price |-> 79]>>>>]

PriceFarBelowRangePayload == [products |-> <<<<"budget", [price |-> 49]>>>>]

WithdrawPremiumPayload == [products |-> <<<<"premium", [active |-> FALSE]>>>>]

WithdrawAllPayload ==
    [products |->
       <<<<"premium", [active |-> FALSE]>>, <<"mid_range", [active |-> FALSE]>>,
         <<"budget", [active |-> FALSE]>>>>]

NoVolumePayload == [products |-> <<<<"mid_range", [production_volume |-> 0]>>>>]

MarketPayloads ==
    {PriceLowPayload, PriceHighPayload, PriceBelowRangePayload,
     PriceFarBelowRangePayload, WithdrawPremiumPayload, WithdrawAllPayload,
     NoVolumePayload}

\* round numbers update_market_conditions is called with: before the mid-game
\* shift and after it
MarketRounds == {1, MID_GAME_SHIFT_ROUND + 1}

\* the random.uniform changes of the trends in one update_market_conditions
TrendDraws ==
    [events : {<<>>}, innovation : UniformDraws, sustainability : UniformDraws]

\* market.py 106-119: the segment sizes of a new Market()
DefaultSizes == [s \in Segments |-> DEFAULT_SEGMENTS_CONFIG[s].size]

\* segment sizes of a market restored by Market.from_dict (market.py 356-366
\* takes the stored segments as they are): the defaults, and sizes that are
\* all zero
StartSizes == {DefaultSizes, [s \in Segments |-> 0]}

MarketWithSizes(sizes) ==
    [Market EXCEPT !.segments =
       [s \in Segments |-> [DEFAULT_SEGMENTS_CONFIG[s] EXCEPT !.size = sizes[s]]]]

\* a new game whose market has the given segment sizes
InitMarketWith(sizes) ==
    /\ game = [initialize_game(NumTeams, 1, IssuedCodes) EXCEPT
                 !.market = MarketWithSizes(sizes)]
    /\ store = to_dict(initialize_game(NumTeams, 1, IssuedCodes))
    /\ req = [w \in Workers |-> Idle]
    /\ last = NoCall
    /\ acked = {}
    /\ fin = [r \in 1..(MaxRounds + 2) |-> 0]
    /\ issued = 0

\* company.py 194-223: a team's product decisions processed
DecideProducts(team_id, decisions) ==
    /\ issued < MaxMarketSteps
    /\ game' = [game EXCEPT !.teams[team_id] =
                  process_decisions(game.teams[team_id], decisions, game.market)]
    /\ last' = Call("process_decisions", team_id, 200, "", FALSE)
    /\ issued' = issued + 1
    /\ UNCHANGED <<store, req, acked, fin>>

\* market.py 121-169: Market.update_market_conditions(round_number)
UpdateConditions(round_number, draws) ==
    /\ issued < MaxMarketSteps
    /\ game' = [game EXCEPT !.market = update_market_conditions(@, round_number, draws)]
    /\ last' = Call("update_market_conditions", 0, 200, "", FALSE)
    /\ issued' = issued + 1
    /\ UNCHANGED <<store, req, acked, fin>>

\* game_state.py 74-84: an event of the given template generated, listed and
\* applied
ImpactMarket(template) ==
    /\ issued < MaxMarketSteps
    /\ game' = RunEvents(game, <<[round |-> game.current_round, template |-> template]>>)
    /\ last' = Call("apply_impact", 0, 200, "", FALSE)
    /\ issued' = issued + 1
    /\ UNCHANGED <<store, req, acked, fin>>

NextMarket ==
    \/ \E t \in Teams, d \in MarketPayloads : DecideProducts(t, d)
    \/ \E r \in MarketRounds, draws \in TrendDraws : UpdateConditions(r, draws)
    \/ \E e \in DOMAIN EventTemplates : ImpactMarket(e)

\* game_state.py 30-61: the market of a new game
InitMarket == InitMarketWith(DefaultSizes)

SpecMarket == InitMarket /\ [][NextMarket]_vars

\* game_state.py 348-416: the market of a game restored from storage
InitStoredMarket == \E sizes \in StartSizes : InitMarketWith(sizes)

SpecStoredMarket == InitStoredMarket /\ [][NextMarket]_vars

\* ------------------------------------------------------------------- claims
\* the list holds every team of the roster exactly once
IsRoster(list) == Len(list) = NumTeams /\ \A t \in Teams : InList(t, list)

NoDuplicates(list) == \A i, j \in 1..Len(list) : list[i] = list[j] => i = j

\* C1: a process_team_decisions call that makes the round's submission list
\* as long as the roster finalizes the round in the same call: the round's
\* results are stored and current_round rises by exactly one; any other
\* accepted call leaves current_round where it was.
C1_CompletingSubmissionFinalizesOnce ==
    [][(last'.op = "process_team_decisions" /\ last'.status = 200) =>
         IF Len(Submissions(game)) + 1 = NumTeams
         THEN /\ game'.current_round = game.current_round + 1
              /\ HasResults(game', game.current_round)
         ELSE /\ game'.current_round = game.current_round
              /\ ~HasResults(game', game.current_round)
                   \/ HasResults(game, game.current_round)]_vars

\* every team has submitted once in round 1 and the round has been closed
C1_Witness ==
    /\ last.op = "process_team_decisions"
    /\ game.current_round = 2
    /\ IsRoster(game.round_results[1].submissions)
    /\ HasResults(game, 1)

\* C2: once every team's submit request for round r has been answered with
\* success, the stored game holds the settlement of round r, has moved past
\* round r, and exactly one saved execution settled it.
C2_AllAcknowledgedFinalizedOnce ==
    \A r \in 1..MaxRounds :
       (\A t \in Teams : <<t, r>> \in acked) =>
          /\ HasResults(store, r)
          /\ store.current_round > r
          /\ fin[r] = 1

\* C3: every submission answered with success is in the stored submission
\* list of its round.
C3_NoAcknowledgedSubmissionLost ==
    \A a \in acked :
       /\ a[2] \in DOMAIN store.round_results
       /\ InList(a[1], store.round_results[a[2]].submissions)

\* C4: every stored submission list holds roster teams only, each at most
\* once; a submit_decisions that succeeds is never by a team already in the
\* current round's list, and one that is turned away changes nothing stored.
C4_SubmissionsAreASetOfTeams ==
    /\ [](\A r \in DOMAIN store.round_results :
            /\ \A i \in 1..Len(store.round_results[r].submissions) :
                 store.round_results[r].submissions[i] \in Teams
            /\ NoDuplicates(store.round_results[r].submissions))
    /\ [][last'.op = "submit_decisions" =>
            IF last'.status = 200
            THEN ~InList(last'.team, Submissions(store))
            ELSE store' = store]_vars

\* a second submission of a team has just been turned away
C4_Witness ==
    /\ last.op = "submit_decisions"
    /\ last.error = "Team already submitted decisions for this round"
    /\ Len(Submissions(store)) >= 1

\* C5: once the stored game is finished no call succeeds and nothing stored
\* changes.
C5_FinishedGameIsFrozen ==
    [][store.finished => (store' = store /\ last'.status # 200)]_vars

\* a submission to a finished game has just been turned away
C5_Witness ==
    /\ store.finished
    /\ last.op = "submit_decisions"
    /\ last.error = "Game already finished"

\* C6: the stored current_round stays within 1..num_rounds+1 and never
\* decreases.
C6_RoundInRangeAndMonotone ==
    /\ [](1 <= store.current_round /\ store.current_round <= store.num_rounds + 1)
    /\ [][store'.current_round >= store.current_round]_vars

\* C7: a finished game has current_round above num_rounds.
C7_FinishedOnlyPastLastRound == store.finished => store.current_round > store.num_rounds

\* C8: an advance that succeeds closes the round it was requested in and
\* moves current_round on by exactly one.
C8_ForcedAdvanceClosesOneRound ==
    [][(last'.op = "advance_round" /\ last'.status = 200) =>
         /\ HasResults(store', store.current_round)
         /\ store'.current_round = store.current_round + 1]_vars

\* C9: process_decisions with the empty payload changes nothing of a company
\* but its decision history, and a process_team_decisions call with the empty
\* payload that does not complete the round changes nothing but that history
\* and the submission list.
C9_EmptyPayloadLeavesCompany ==
    /\ [](\A t \in Teams :
            /\ get_state(process_decisions(game.teams[t], EmptyDict, game.market))
                 = get_state(game.teams[t])
            /\ process_decisions(game.teams[t], EmptyDict, game.market).decisions_history
                 = Put(game.teams[t].decisions_history, game.market.current_round, EmptyDict))
    /\ [][(/\ last'.op = "process_team_decisions"
           /\ last'.status = 200
           /\ last'.empty
           /\ Len(Submissions(game)) + 1 # NumTeams) =>
            /\ \A t \in Teams : get_state(game'.teams[t]) = get_state(game.teams[t])
            /\ game'.market = game.market
            /\ game'.current_round = game.current_round
            /\ Submissions(game') = Append(Submissions(game), last'.team)]_vars

\* an empty payload has just been processed for a team without closing the round
C9_Witness ==
    /\ last.op = "process_team_decisions"
    /\ last.status = 200
    /\ last.empty
    /\ InList(last.team, Submissions(game))
    /\ EmptyDict = game.teams[last.team].decisions_history[game.market.current_round]

\* C10: no round is settled by more than one saved execution.
C10_RoundSettledAtMostOnce == \A r \in DOMAIN fin : fin[r] <= 1

\* C11: a round with a stored settlement has the whole roster in its
\* submission list, and a finished game has the whole roster in the list of
\* every round it was created with.
C11_SettledAndFinishedWithFullRoster ==
    /\ \A r \in DOMAIN store.round_results :
          HasResults(store, r) => IsRoster(store.round_results[r].submissions)
    /\ store.finished =>
          \A r \in 1..store.num_rounds :
             /\ r \in DOMAIN store.round_results
             /\ IsRoster(store.round_results[r].submissions)

\* C12: an advance_round answered with an error leaves the stored game as it
\* was.
C12_RejectedAdvanceSavesNothing ==
    [][(last'.op = "advance_round" /\ last'.status # 200) => store' = store]_vars

\* C13: a process_decisions call on a company whose cash is not negative
\* deducts at most that cash, so the cash is not negative afterwards.
C13_SpendWithinCash ==
    [][last'.op = "process_decisions" =>
         \A t \in Teams :
            game.teams[t].capital >= 0 =>
               /\ game.teams[t].capital - game'.teams[t].capital <= game.teams[t].capital
               /\ game'.teams[t].capital >= 0]_vars

\* a payload that asks for more than the cash, in several sections, has been
\* processed and has used the cash up
C13_Witness ==
    /\ last.op = "process_decisions"
    /\ LastDecisions(game, 1) = CorporatePayload
    /\ game.teams[1].capital = 0
    /\ game.teams[1].brand_strength = INITIAL_BRAND_STRENGTH

\* the attributes of a company that are scores between 0 and 100
ScoreAttributes ==
    {"r_d_capability", "brand_strength", "quality_control", "customer_satisfaction",
     "innovation_index", "r_d_effectiveness", "environmental_impact", "csr_rating",
     "employee_satisfaction"}

\* C14: every score attribute of every company stays within 0..100 and the
\* market share within 0..1.
C14_AttributesInRange ==
    \A t \in Teams :
       /\ \A a \in ScoreAttributes :
             /\ game.teams[t][a] >= MIN_ATTRIBUTE_SCORE
             /\ game.teams[t][a] <= MAX_ATTRIBUTE_SCORE
       /\ game.teams[t].market_share >= 0
       /\ game.teams[t].market_share <= 10000

\* C16: the production volumes of a company's active segments add up to at
\* most its production capacity.
C16_ProductionWithinCapacity ==
    \A t \in Teams : total_production(game.teams[t]) <= game.teams[t].production_capacity

\* C17: a payload with an R&D section only spends its budget, or the cash when
\* the budget is above it; r_d_capability gains 5 points for every 50,000,000
\* spent, up to 100, and patent_portfolio 0.5 for every 50,000,000. A budget
\* of 50,000,000 out of enough cash, at a capability of 95 or less, gives
\* exactly +5 points, +0.5 patents and -50,000,000.
C17_RDGainPerBudget ==
    [][(last'.op = "process_decisions" /\ DOMAIN LastDecisions(game', 1) = {"r_d"}) =>
         LET before == game.teams[1]
             after == game'.teams[1]
             budget == LastDecisions(game', 1).r_d.budget
             spent == before.capital - after.capital
         IN /\ spent = IF budget > before.capital THEN before.capital ELSE budget
            /\ after.r_d_capability =
                  Min(10000, before.r_d_capability + (spent * 500) \div 50000)
            /\ after.patent_portfolio = before.patent_portfolio + (spent * 500) \div 50000
            /\ (budget = 50000 /\ before.capital >= 50000 /\ before.r_d_capability <= 9500) =>
                  /\ after.r_d_capability = before.r_d_capability + 500
                  /\ after.patent_portfolio = before.patent_portfolio + 500
                  /\ after.capital = before.capital - 50000]_vars

\* the new company has processed an R&D budget of 50,000,000
C17_Witness ==
    /\ last.op = "process_decisions"
    /\ LastDecisions(game, 1) = RDBasePayload
    /\ game.teams[1].r_d_capability = INITIAL_RD_CAPABILITY + 500
    /\ game.teams[1].patent_portfolio = 500
    /\ game.teams[1].capital = INITIAL_CAPITAL - 50000

\* the sum of the three segment sizes, in 1/10000 of the market
SegmentSizeSum(market) == SumOver(Segments, [s \in Segments |-> market.segments[s].size])

\* the sizes sum to 1: each of the three is rounded down to 1/10000
SumsToOne(market) == SegmentSizeSum(market) \in (10000 - Cardinality(Segments))..10000

\* the last event listed changes a segment size
LastEventSizesSegment(g) ==
    /\ g.events # <<>>
    /\ \E s \in Segments :
          SegmentArea(s) \in DOMAIN EventTemplates[g.events[Len(g.events)].template].market

Offers(companies, t, segment) ==
    companies[t].products[segment].active /\ companies[t].products[segment].production_volume > 0

\* C18: in the settlement of the present market and companies, a segment in
\* which no company has an active offering with a production volume above 0
\* is in no company's sales map, and a company with no such offering in any
\* segment has no entry in the settlement.
C18_NoCompetitorNoEntry ==
    LET market_results == calculate_market_results(game.market, game.teams)
    IN /\ \A s \in Segments :
             (\A t \in Teams : ~Offers(game.teams, t, s)) =>
                \A t \in DOMAIN market_results : s \notin DOMAIN market_results[t].sales
       /\ \A t \in Teams :
             (\A s \in Segments : ~Offers(game.teams, t, s)) => t \notin DOMAIN market_results

\* team 1 has withdrawn every product and team 2 its premium product: the
\* premium segment has no competitor, team 1 competes nowhere, and team 2 is
\* settled in the other two segments
C18_Witness ==
    /\ \A t \in Teams : ~Offers(game.teams, t, "premium")
    /\ \A s \in Segments : ~Offers(game.teams, 1, s)
    /\ DOMAIN calculate_market_results(game.market, game.teams) = {2}
    /\ DOMAIN calculate_market_results(game.market, game.teams)[2].sales = {"mid_range", "budget"}

\* the attributes of a company that its attractiveness is computed from
AttractivenessAttributes == {"brand_strength", "innovation_index", "environmental_impact"}

\* companies a and b compete in the segment with products and attributes that
\* are the same except that a's price is below b's
SameButCheaper(companies, a, b, segment) ==
    /\ Offers(companies, a, segment) /\ Offers(companies, b, segment)
    /\ \A f \in AttractivenessAttributes : companies[a][f] = companies[b][f]
    /\ [companies[a].products[segment] EXCEPT !.price = 0]
          = [companies[b].products[segment] EXCEPT !.price = 0]
    /\ companies[a].products[segment].price < companies[b].products[segment].price

\* C19: of two companies competing in a segment with the same product and the
\* same attributes except for a lower price of the first, the first has the
\* strictly greater attractiveness and the strictly greater share of the
\* segment in the settlement, whatever the two prices are.
C19_LowerPriceWinsShare ==
    LET market_results == calculate_market_results(game.market, game.teams)
    IN \A s \in Segments : \A a, b \in Teams :
          SameButCheaper(game.teams, a, b, s) =>
             /\ Attractiveness(game.market, game.teams[a], s).attractiveness
                   > Attractiveness(game.market, game.teams[b], s).attractiveness
             /\ market_results[a].sales[s].market_share
                   > market_results[b].sales[s].market_share

\* market.py 176-179: the demand of a segment, in units
SegmentDemand(market, segment) ==
    (market.total_market_size * market.segments[segment].size) \div 10000

\* the entries of a segment in the settlement, by company
SegmentSales(market_results, segment) ==
    [t \in {u \in DOMAIN market_results : segment \in DOMAIN market_results[u].sales} |->
       market_results[t].sales[segment]]

\* C20: in the settlement of the present market and companies, a company's
\* units sold in a segment are at most its production volume there and at most
\* the segment's demand times its share; the shares of a segment's competitors
\* sum to 1 (each rounded down to 1/10000), and the units sold in a segment
\* are together at most the segment's demand.
C20_SalesWithinSupplyAndDemand ==
    LET market_results == calculate_market_results(game.market, game.teams)
    IN \A s \in Segments :
          LET sales == SegmentSales(market_results, s)
          IN /\ \A t \in DOMAIN sales :
                   /\ sales[t].units_sold <= game.teams[t].products[s].production_volume
                   /\ sales[t].units_sold
                         <= (SegmentDemand(game.market, s) * sales[t].market_share) \div 10000
             /\ DOMAIN sales # {} =>
                   /\ SumOver(DOMAIN sales, [t \in DOMAIN sales |-> sales[t].market_share])
                         \in (10000 - Cardinality(DOMAIN sales))..10000
                   /\ SumOver(DOMAIN sales, [t \in DOMAIN sales |-> sales[t].units_sold])
                         <= SegmentDemand(game.market, s)

\* two companies share the budget segment, team 1 at the lower price and so
\* with the greater share, and team 1 sells its whole production there, which
\* is below its part of the demand
C20_Witness ==
    LET market_results == calculate_market_results(game.market, game.teams)
    IN /\ {1, 2} \subseteq DOMAIN market_results
       /\ "budget" \in DOMAIN market_results[1].sales
       /\ "budget" \in DOMAIN market_results[2].sales
       /\ market_results[1].sales.budget.market_share > market_results[2].sales.budget.market_share
       /\ market_results[1].sales.budget.units_sold > 0
       /\ market_results[1].sales.budget.units_sold = game.teams[1].products.budget.production_volume
       /\ market_results[1].sales.budget.units_sold
             < (SegmentDemand(game.market, "budget")
                  * market_results[1].sales.budget.market_share) \div 10000

\* company.py 167-168: decisions_history is a dict keyed by the int
\* market.current_round; a key is written here with its type
IntKeyed(d) == [k \in {<<"int", r>> : r \in DOMAIN d} |-> d[k[2]]]

\* game_state.py 102-105: round_results is keyed by str(current_round)
StrKeyed(d) == [k \in {<<"str", r>> : r \in DOMAIN d} |-> d[k[2]]]

\* the game with the types of the keys of its round dicts
WithKeyTypes(g) ==
    [g EXCEPT
       !.round_results = StrKeyed(@),
       !.teams = [t \in DOMAIN g.teams |->
                    [g.teams[t] EXCEPT !.decisions_history = IntKeyed(@)]]]

\* persistence.py 115-116 and 159-160: json.load of json.dump turns every
\* dict key into a string
JsonKeys(d) ==
    [k \in {<<"str", x[2]>> : x \in DOMAIN d} |-> d[CHOOSE x \in DOMAIN d : x[2] = k[2]]]

\* persistence.py 115-116 and 159-160: the state dict read back from its JSON
\* text; the team ids are strings already, numbers and lists come back as
\* they were
JsonRoundTrip(state_dict) ==
    [state_dict EXCEPT
       !.round_results = JsonKeys(@),
       !.teams = [t \in DOMAIN state_dict.teams |->
                    [state_dict.teams[t] EXCEPT !.decisions_history = JsonKeys(@)]]]

\* C21: the game restored from its dictionary is the game in every field,
\* the keys of the decision histories and of the round results included, and
\* so is the game restored from the dictionary read back from its JSON text.
C21_RoundTripIdentical ==
    /\ from_dict(to_dict(WithKeyTypes(game))) = WithKeyTypes(game)
    /\ from_dict(JsonRoundTrip(to_dict(WithKeyTypes(game)))) = WithKeyTypes(game)

\* ------------------------------------------- GamePersistence, call by call
\* Largest number of calls made on the storage.
MaxStorageCalls == 4

\* the ids of the games kept in the storage
GameIds == {"game_1", "game_2"}

\* the dict d without the key k
Remove(d, k) == [x \in DOMAIN d \ {k} |-> d[x]]

\* the games whose dictionaries are saved: a new game, the same game after a
\* team's decisions, and a new game of another length
NewGame == initialize_game(NumTeams, MaxRounds, IssuedCodes)

DecidedGame == RecordSubmission(ApplyDecisions(NewGame, 1, RDPayload), 1)

SavedGames == {NewGame, DecidedGame, initialize_game(NumTeams, 1, IssuedCodes)}

\* game_state.py 262-346: the state dicts handed to save_game, with the types
\* of their round keys
Snapshots == {to_dict(WithKeyTypes(g)) : g \in SavedGames}

\* persistence.py 20-54: a new GamePersistence over an empty directory
GamePersistence ==
    [files |-> EmptyDict,
     game_cache |-> EmptyDict,
     code_index |-> [admin_codes |-> EmptyDict, team_codes |-> EmptyDict]]

\* persistence.py 94-137: save_game(game_id, game_state, admin_code,
\* team_codes); the file holds the JSON text, the cache the dict itself
save_game(p, game_id, game_state, admin_code, team_codes) ==
    [files |-> Put(p.files, game_id, JsonRoundTrip(game_state)),
     game_cache |-> Put(p.game_cache, game_id, game_state),
     code_index |->
        [admin_codes |->
            IF admin_code # 0 THEN Put(p.code_index.admin_codes, game_id, admin_code)
            ELSE p.code_index.admin_codes,
         team_codes |->
            IF DOMAIN team_codes # {} THEN Put(p.code_index.team_codes, game_id, team_codes)
            ELSE p.code_index.team_codes]]

\* a variant of load_game that always reads the file
load_game_Uncached(p, game_id) ==
    IF game_id \in DOMAIN p.files
    THEN [found |-> TRUE, game_state |-> p.files[game_id],
          persistence |-> [p EXCEPT !.game_cache = Put(@, game_id, p.files[game_id])]]
    ELSE [found |-> FALSE, game_state |-> EmptyDict, persistence |-> p]

\* persistence.py 139-172: load_game(game_id): the cached dict, else the dict
\* read from the file and cached, else None
load_game(p, game_id) ==
    IF game_id \in DOMAIN p.game_cache
    THEN [found |-> TRUE, game_state |-> p.game_cache[game_id], persistence |-> p]
    ELSE IF game_id \in DOMAIN p.files
    THEN [found |-> TRUE, game_state |-> p.files[game_id],
          persistence |-> [p EXCEPT !.game_cache = Put(@, game_id, p.files[game_id])]]
    ELSE [found |-> FALSE, game_state |-> EmptyDict, persistence |-> p]

\* persistence.py 218-254: delete_game(game_id)
delete_game(p, game_id) ==
    [files |-> Remove(p.files, game_id),
     game_cache |-> Remove(p.game_cache, game_id),
     code_index |->
        [admin_codes |-> Remove(p.code_index.admin_codes, game_id),
         team_codes |-> Remove(p.code_index.team_codes, game_id)]]

\* what is remembered of a call on the storage
StorageCall(op, game_id, ok) == [op |-> op, game_id |-> game_id, ok |-> ok]

\* store is the GamePersistence, acked the dict each game id was last saved
\* with, issued the number of calls made
InitPersistence ==
    /\ store = GamePersistence
    /\ game = NewGame
    /\ req = [w \in Workers |-> Idle]
    /\ last = StorageCall("none", "", FALSE)
    /\ acked = EmptyDict
    /\ fin = [r \in 1..(MaxRounds + 2) |-> 0]
    /\ issued = 0

SaveGame(game_id, game_state, with_codes) ==
    /\ issued < MaxStorageCalls
    /\ store' = save_game(store, game_id, game_state,
                          IF with_codes THEN game_state.admin_code ELSE 0,
                          IF with_codes THEN game_state.team_codes ELSE EmptyDict)
    /\ acked' = Put(acked, game_id, game_state)
    /\ last' = StorageCall("save_game", game_id, TRUE)
    /\ issued' = issued + 1
    /\ UNCHANGED <<game, req, fin>>

LoadGame(game_id) ==
    /\ issued < MaxStorageCalls
    /\ store' = load_game(store, game_id).persistence
    /\ last' = StorageCall("load_game", game_id, load_game(store, game_id).found)
    /\ issued' = issued + 1
    /\ UNCHANGED <<game, req, acked, fin>>

DeleteGame(game_id) ==
    /\ issued < MaxStorageCalls
    /\ store' = delete_game(store, game_id)
    /\ acked' = Remove(acked, game_id)
    /\ last' = StorageCall("delete_game", game_id, game_id \in DOMAIN store.files)
    /\ issued' = issued + 1
    /\ UNCHANGED <<game, req, fin>>

NextPersistence ==
    \/ \E id \in GameIds, s \in Snapshots, with_codes \in BOOLEAN : SaveGame(id, s, with_codes)
    \/ \E id \in GameIds : LoadGame(id)
    \/ \E id \in GameIds : DeleteGame(id)

SpecPersistence == InitPersistence /\ [][NextPersistence]_vars

GameKey(game_id) == <<"game", game_id>>

AdminCodeIdxKey(game_id) == <<"admin_code_idx", game_id>>

TeamKey(game_id, team_id) == <<"team", game_id, ToString(team_id)>>

\* file_pickle_persistence.py 111-143: FilePickleStorage.keys(pattern): every
\* key for "*", the keys that start with the text before a "*" at the end of
\* the pattern, and no key for any other pattern
keys(storage, pattern) ==
    {k \in DOMAIN storage :
       \/ pattern = <<"*">>
       \/ /\ pattern[Len(pattern)] = "*"
          /\ Len(k) >= Len(pattern) - 1
          /\ SubSeq(k, 1, Len(pattern) - 1) = SubSeq(pattern, 1, Len(pattern) - 1)}

\* file_pickle_persistence.py 172-207: save_game_state(game_state) of a game
\* with the given game_id
RECURSIVE SetTeamKeys(_, _, _, _)
SetTeamKeys(storage, game_id, state_dict, team_ids) ==
    IF team_ids = {} THEN storage
    ELSE LET t == CHOOSE x \in team_ids : TRUE
         IN SetTeamKeys(
               IF Get(state_dict.team_codes, t, 0) # 0
               THEN Put(storage, TeamKey(game_id, t), state_dict.team_codes[t])
               ELSE storage,
               game_id, state_dict, team_ids \ {t})

save_game_state(storage, game_id, game_state) ==
    SetTeamKeys(
        IF game_state.admin_code # 0
        THEN Put(Put(storage, GameKey(game_id), to_dict(game_state)),
                 AdminCodeIdxKey(game_id), game_state.admin_code)
        ELSE Put(storage, GameKey(game_id), to_dict(game_state)),
        game_id, to_dict(game_state), DOMAIN to_dict(game_state).teams)

\* file_pickle_persistence.py 209-230: load_game_state(game_id): the game, or
\* None (found is FALSE)
load_game_state(storage, game_id) ==
    IF GameKey(game_id) \in DOMAIN storage
    THEN [found |-> TRUE, game_state |-> from_dict(storage[GameKey(game_id)])]
    ELSE [found |-> FALSE, game_state |-> EmptyDict]

\* file_pickle_persistence.py 232-260: the game ids get_game_for_team(team_id,
\* team_code) can return, in the order os.listdir gives the keys; None when
\* there is none
get_game_for_team(storage, team_id, team_code) ==
    {k[2] : k \in {x \in keys(storage, <<"team", "*", ToString(team_id)>>) :
                     /\ Len(x) = 3 /\ x[1] = "team" /\ x[3] = ToString(team_id)
                     /\ storage[x] = team_code}}

\* file_pickle_persistence.py 293-316: the keys delete_game(game_id) deletes:
\* the team keys of the teams of the loaded game and the admin code index,
\* when the game loads, and the game key
DeletedKeys(storage, game_id) ==
    {GameKey(game_id)}
      \cup (IF load_game_state(storage, game_id).found
            THEN {AdminCodeIdxKey(game_id)}
                   \cup {TeamKey(game_id, t) :
                           t \in DOMAIN load_game_state(storage, game_id).game_state.teams}
            ELSE {})

\* file_pickle_persistence.py 293-329: delete_game(game_id); ok is what it
\* returns
delete_game_state(storage, game_id) ==
    [ok |-> GameKey(game_id) \in DOMAIN storage,
     storage |-> [k \in DOMAIN storage \ DeletedKeys(storage, game_id) |-> storage[k]]]

\* file_pickle_persistence.py 331-343: list_games()
list_games(storage) == {k[2] : k \in {x \in keys(storage, <<"game", "*">>) : x[1] = "game"}}

\* the games saved: a new game, the same game after a team's decisions, and a
\* new game of one team less made in the same second, which has the same
\* game_id (game_state.py 23)
ManagedGames == {NewGame, DecidedGame, initialize_game(NumTeams - 1, MaxRounds, IssuedCodes)}

\* store is the content of the FilePickleStorage, issued the number of calls
InitManager ==
    /\ store = EmptyDict
    /\ game = NewGame
    /\ req = [w \in Workers |-> Idle]
    /\ last = StorageCall("none", "", FALSE)
    /\ acked = {}
    /\ fin = [r \in 1..(MaxRounds + 2) |-> 0]
    /\ issued = 0

SaveGameState(game_id, game_state) ==
    /\ issued < MaxStorageCalls
    /\ store' = save_game_state(store, game_id, game_state)
    /\ last' = StorageCall("save_game_state", game_id, TRUE)
    /\ issued' = issued + 1
    /\ UNCHANGED <<game, req, acked, fin>>

LoadGameState(game_id) ==
    /\ issued < MaxStorageCalls
    /\ last' = StorageCall("load_game_state", game_id, load_game_state(store, game_id).found)
    /\ issued' = issued + 1
    /\ UNCHANGED <<store, game, req, acked, fin>>

GetGameForTeam(team_id, team_code) ==
    /\ issued < MaxStorageCalls
    /\ last' \in
          IF get_game_for_team(store, team_id, team_code) = {}
          THEN {StorageCall("get_game_for_team", "", FALSE)}
          ELSE {StorageCall("get_game_for_team", id, TRUE) :
                  id \in get_game_for_team(store, team_id, team_code)}
    /\ issued' = issued + 1
    /\ UNCHANGED <<store, game, req, acked, fin>>

DeleteGameState(game_id) ==
    /\ issued < MaxStorageCalls
    /\ store' = delete_game_state(store, game_id).storage
    /\ last' = StorageCall("delete_game", game_id, delete_game_state(store, game_id).ok)
    /\ issued' = issued + 1
    /\ UNCHANGED <<game, req, acked, fin>>

NextManager ==
    \/ \E id \in GameIds, g \in ManagedGames : SaveGameState(id, g)
    \/ \E id \in GameIds : LoadGameState(id)
    \/ \E t \in RequestTeams : \E c \in PresentedCodes(TeamCode(t)) : GetGameForTeam(t, c)
    \/ \E id \in GameIds : DeleteGameState(id)

SpecManager == InitManager /\ [][NextManager]_vars

\* C23: after delete_game(id) has returned true, the storage holds no key of
\* the game (game key, admin code index, team keys), load_game_state(id)
\* returns None and list_games() does not list id.
C23_DeleteLeavesNoTrace ==
    [][(last'.op = "delete_game" /\ last'.ok) =>
         /\ \A k \in DOMAIN store' : k[2] # last'.game_id
         /\ ~load_game_state(store', last'.game_id).found
         /\ last'.game_id \notin list_games(store')]_vars

\* C24: for every team id and code, get_game_for_team returns the id of a
\* saved game that has this team with this code when there is such a game,
\* and None when there is none.
C24_TeamCodeFindsGame ==
    \A t \in RequestTeams : \A c \in PresentedCodes(TeamCode(t)) :
       LET with_team ==
               {id \in list_games(store) :
                  /\ t \in DOMAIN store[GameKey(id)].teams
                  /\ store[GameKey(id)].team_codes[t] = c}
       IN IF with_team = {} THEN get_game_for_team(store, t, c) = {}
          ELSE /\ get_game_for_team(store, t, c) # {}
               /\ get_game_for_team(store, t, c) \subseteq with_team

\* C25: the process_team_decisions call that completes a round in which every
\* team has submitted once leaves the game in the next round and not finished
\* when the round is below num_rounds, and finished when the round is
\* num_rounds: the game is finished by the settlement of round num_rounds and
\* by no earlier one.
C25_FinishedByLastRoundOnly ==
    [][(/\ last'.op = "process_team_decisions"
        /\ FinalizedBy(game, game') = {game.current_round}
        /\ IsRoster(game'.round_results[game.current_round].submissions)) =>
         /\ game.current_round < game.num_rounds =>
               (game'.current_round = game.current_round + 1 /\ ~game'.finished)
         /\ game.current_round = game.num_rounds => game'.finished]_vars


\* ---------------------------------------------------------------- claim C26
\* C26: creating a game with num_teams <= 0 or num_rounds <= 0 fails and
\* leaves no playable game: every stored game that is started and not
\* finished has at least one team and at least one round.
C26_NoGameOfInvalidCounts ==
    (store.started /\ ~store.finished) =>
        (store.num_teams >= 1 /\ store.num_rounds >= 1)


\* =========================================================== joining a game
\* the number of different strings _generate_code can return (36^8 in the
\* source, game_state.py 65-66)
NumCodes == 3
GeneratedCodes == 1..NumCodes
\* the roles a join request may name; "" is a request without a role
JoinRoles == {"", "admin", "team", "viewer"}

\* main.py 364-412: join_game answers with a status and, on success, the
\* role and team of the page it redirects to; a request without game id,
\* role or code is answered 400 before the game is loaded
join_game(state_dict, role, code) ==
    IF role = "" THEN [status |-> 400, role |-> "", team |-> 0]
    ELSE IF role = "admin"
    THEN IF state_dict.admin_code # code
         THEN [status |-> 403, role |-> "", team |-> 0]
         ELSE [status |-> 200, role |-> "admin", team |-> 0]
    ELSE IF role = "team"
    THEN LET matching == {t \in DOMAIN state_dict.team_codes :
                              state_dict.team_codes[t] = code}
         IN  IF matching = {}
             THEN [status |-> 403, role |-> "", team |-> 0]
             ELSE [status |-> 200, role |-> "team",
                   team |-> CHOOSE t \in matching : \A u \in matching : t <= u]
    ELSE [status |-> 400, role |-> "", team |-> 0]

\* game_state.py 30-61 and main.py 40-44: a game created with the codes
\* _generate_code happens to return, each one any of the strings it can make
InitJoin ==
    \E codes \in [1..(NumTeams + 1) -> GeneratedCodes] :
        /\ store = to_dict(initialize_game(NumTeams, MaxRounds, codes))
        /\ game = initialize_game(NumTeams, MaxRounds, codes)
        /\ req = [w \in Workers |-> Idle]
        /\ last = NoCall
        /\ acked = {}
        /\ fin = [r \in 1..(MaxRounds + 2) |-> 0]
        /\ issued = 0

JoinGame(role, code) ==
    /\ last' = [op |-> "join_game", asked |-> role, code |-> code,
                answer |-> join_game(store, role, code)]
    /\ UNCHANGED <<store, game, req, acked, fin, issued>>

NextJoin == \E role \in JoinRoles, code \in GeneratedCodes \cup {0} : JoinGame(role, code)

SpecJoin == InitJoin /\ [][NextJoin]_vars

\* the roles and teams whose stored code is the given one
Identified(state_dict, code) ==
    {<<"admin", 0>> : x \in {c \in {state_dict.admin_code} : c = code}} \cup
    {<<"team", t>> : t \in {u \in DOMAIN state_dict.team_codes :
                                state_dict.team_codes[u] = code}}

\* ---------------------------------------------------------------- claim C27
\* C27: after initialize_game the access codes of a game are pairwise
\* distinct: no two teams share a team code and no team code equals the admin
\* code, so every code identifies at most one role and team.
C27_CodesPairwiseDistinct ==
    /\ \A t, u \in DOMAIN store.team_codes :
           t # u => store.team_codes[t] # store.team_codes[u]
    /\ \A t \in DOMAIN store.team_codes : store.team_codes[t] # store.admin_code
    /\ \A code \in GeneratedCodes : Cardinality(Identified(store, code)) <= 1


\* ============================================ rankings and the team's view
\* a variant of InsertByScore that puts an entry before the entries of the
\* same score
InsertByScore_TiesFirst(sorted, entry) ==
    LET k == Cardinality({i \in 1..Len(sorted) : sorted[i].score > entry.score})
    IN  SubSeq(sorted, 1, k) \o <<entry>> \o SubSeq(sorted, k + 1, Len(sorted))

\* game_state.py 254: list.sort(key = score, reverse = True) is stable: an
\* entry goes behind every entry already placed whose score is not smaller
InsertByScore(sorted, entry) ==
    LET k == Cardinality({i \in 1..Len(sorted) : sorted[i].score >= entry.score})
    IN  SubSeq(sorted, 1, k) \o <<entry>> \o SubSeq(sorted, k + 1, Len(sorted))

RECURSIVE SortByScore(_)
SortByScore(rankings) ==
    IF rankings = <<>> THEN <<>>
    ELSE InsertByScore(SortByScore(SubSeq(rankings, 1, Len(rankings) - 1)),
                       rankings[Len(rankings)])

\* company.py 22 and game_state.py 38-40: the company of team_<i> is named
\* "Company <i>"
CompanyName(team_id) == <<"Company", team_id>>

\* game_state.py 239-260: GameState.get_rankings; the teams are listed in the
\* order of the roster, sorted by score and numbered
get_rankings(g) ==
    LET listed ==
          [t \in 1..Cardinality(DOMAIN g.teams) |->
             [team_id |-> t,
              name |-> CompanyName(t),
              score |-> g.teams[t].score,
              financial_score |-> g.teams[t].financial_score,
              market_score |-> g.teams[t].market_score,
              innovation_score |-> g.teams[t].innovation_score,
              sustainability_score |-> g.teams[t].sustainability_score]]
        sorted == SortByScore(listed)
    IN  [i \in 1..Len(sorted) |->
           [f \in DOMAIN sorted[i] \cup {"rank"} |->
              IF f = "rank" THEN i ELSE sorted[i][f]]]

\* market.py 295-305: Market.generate_report; the insights (lines 307-345)
\* are sentences chosen by these fields and the round number
generate_report(market, round_number) ==
    [round |-> round_number,
     total_market_size |-> market.total_market_size,
     market_growth_rate |-> market.market_growth_rate,
     segments |-> market.segments,
     trends |-> market.trends]

\* a variant of Competitor that hands out the whole state of the company
Competitor_WholeState(comp) == get_state(comp)

\* game_state.py 180-185: what a team is shown of another company
Competitor(comp) ==
    [name |-> CompanyName(comp.team_id),
     market_share |-> comp.market_share,
     brand_strength |-> comp.brand_strength]

\* game_state.py 187-194: the team's own entries of the round before; an
\* entry without results raises KeyError at line 192
PreviousResults(g, team_id) ==
    IF g.current_round > 1 /\ (g.current_round - 1) \in DOMAIN g.round_results
    THEN IF HasResults(g, g.current_round - 1)
         THEN [raised |-> FALSE,
               company_state |->
                   Get(g.round_results[g.current_round - 1].company_states, team_id, "None"),
               market_results |->
                   Get(g.round_results[g.current_round - 1].market_results, team_id, "None")]
         ELSE [raised |-> TRUE]
    ELSE [raised |-> FALSE]

\* game_state.py 159-207: GameState.get_team_view; found is false where the
\* method returns None
get_team_view(g, team_id) ==
    IF team_id \notin DOMAIN g.teams THEN [found |-> FALSE]
    ELSE [found |-> TRUE,
          round |-> g.current_round,
          total_rounds |-> g.num_rounds,
          company |-> get_state(g.teams[team_id]),
          market |-> generate_report(g.market, g.current_round),
          events |-> SelectSeq(g.events, LAMBDA event : event.round = g.current_round),
          competitors |->
              [tid \in DOMAIN g.teams \ {team_id} |-> Competitor(g.teams[tid])],
          previous_results |-> PreviousResults(g, team_id)]

GetRankings ==
    /\ last' = [op |-> "get_rankings", team |-> 0, status |-> 200, error |-> "",
                empty |-> FALSE, rankings |-> get_rankings(game)]
    /\ UNCHANGED <<store, game, req, acked, fin, issued>>

GetTeamView(team_id) ==
    /\ last' = [op |-> "get_team_view", team |-> team_id,
                status |-> IF team_id \in DOMAIN game.teams THEN 200 ELSE 404,
                error |-> "", empty |-> FALSE,
                team_view |-> get_team_view(game, team_id)]
    /\ UNCHANGED <<store, game, req, acked, fin, issued>>

NextViews ==
    \/ NextEngine
    \/ GetRankings
    \/ \E t \in RequestTeams : GetTeamView(t)

SpecViews == InitEngine /\ [][NextViews]_vars

\* ---------------------------------------------------------------- claim C28
\* C28: get_rankings returns every team exactly once, ordered by
\* non-increasing score, with ranks 1..n in that order, and teams of equal
\* score keep the order of the roster.
C28_RankingsStableDescending ==
    last.op = "get_rankings" =>
        LET r == last.rankings
        IN  /\ Len(r) = Cardinality(DOMAIN game.teams)
            /\ {r[i].team_id : i \in 1..Len(r)} = DOMAIN game.teams
            /\ \A i \in 1..Len(r) :
                   /\ r[i].rank = i
                   /\ r[i].score = game.teams[r[i].team_id].score
            /\ \A i, j \in 1..Len(r) :
                   i < j => /\ r[i].score >= r[j].score
                            /\ r[i].score = r[j].score => r[i].team_id < r[j].team_id

\* the rankings of a game in which the last team of the roster leads
C28_Witness ==
    /\ last.op = "get_rankings"
    /\ last.rankings[1].team_id = NumTeams
    /\ last.rankings[1].score > last.rankings[2].score

\* a company as it is after initialize_game but for what every team may see
PublicOnly(comp) ==
    [Company(comp.team_id) EXCEPT !.market_share = comp.market_share,
                                  !.brand_strength = comp.brand_strength]

\* the game with the private state of every team but team_id put back to
\* that of a new company, and their entries taken out of the round results
Hidden(g, team_id) ==
    [g EXCEPT
       !.teams = [t \in DOMAIN g.teams |->
                    IF t = team_id THEN g.teams[t] ELSE PublicOnly(g.teams[t])],
       !.round_results =
           [r \in DOMAIN g.round_results |->
              IF HasResults(g, r)
              THEN [g.round_results[r] EXCEPT
                      !.company_states =
                          [t \in DOMAIN @ \cap {team_id} |-> @[t]],
                      !.market_results =
                          [t \in DOMAIN @ \cap {team_id} |-> @[t]]]
              ELSE g.round_results[r]]]

\* ---------------------------------------------------------------- claim C29
\* C29: the view of team t shows of every other team only its name, market
\* share and brand strength: it is the view t gets of the game in which the
\* private state of the other teams and their entries in the round results
\* are replaced, so no two games differing only there give different views.
C29_ViewHidesOtherTeams ==
    (last.op = "get_team_view" /\ last.team \in DOMAIN game.teams) =>
        /\ last.team_view = get_team_view(Hidden(game, last.team), last.team)
        /\ \A t \in DOMAIN last.team_view.competitors :
               DOMAIN last.team_view.competitors[t] =
                   {"name", "market_share", "brand_strength"}

\* the view of a team after a round in which another team spent money
C29_Witness ==
    /\ last.op = "get_team_view"
    /\ last.team \in DOMAIN game.teams
    /\ last.team_view.round > 1
    /\ \E t \in DOMAIN game.teams \ {last.team} :
           /\ game.teams[t].capital # INITIAL_CAPITAL
           /\ game.teams[t].score # 0


\* ================================================ the order of the spends
\* the amounts a payload asks for, in the order R&D, marketing of each
\* segment of the products section, capacity, quality, sustainability, CSR,
\* employees, brand; a section that is absent asks for nothing
MarketingRequests(c, decisions) ==
    LET items == Get(decisions, "products", <<>>)
        counted == SelectSeq(items,
                     LAMBDA item : /\ item[1] \in Segments
                                   /\ Get(item[2], "active", c.products[item[1]].active))
    IN [i \in 1..Len(counted) |->
          [item |-> <<"products", counted[i][1]>>,
           requested |-> Get(counted[i][2], "marketing_budget",
                             c.products[counted[i][1]].marketing_budget),
           marketing |-> TRUE]]

SectionRequests(decisions, section, fields) ==
    IF section \in DOMAIN decisions
    THEN [i \in 1..Len(fields) |->
            [item |-> <<section, fields[i]>>,
             requested |-> Get(decisions[section], fields[i], 0),
             marketing |-> FALSE]]
    ELSE <<>>

Requests(c, decisions) ==
    SectionRequests(decisions, "r_d", <<"budget">>)
      \o MarketingRequests(c, decisions)
      \o SectionRequests(decisions, "operations",
                         <<"capacity_investment", "quality_investment">>)
      \o SectionRequests(decisions, "corporate",
                         <<"sustainability_investment", "csr_investment",
                           "employee_investment", "brand_investment">>)

\* every request cut to the cash left by the requests before it; with
\* floored, a marketing spend is at least zero
RECURSIVE SequentialSpends(_, _, _)
SequentialSpends(requests, cash, floored) ==
    IF requests = <<>> THEN EmptyDict
    ELSE LET cut == Min(requests[1].requested, cash)
             spend == IF floored /\ requests[1].marketing /\ cut < 0 THEN 0 ELSE cut
             later == SequentialSpends(Tail(requests), cash - spend, floored)
         IN  Put(later, requests[1].item, spend)

\* the company after a call shows the given spends: the cash, the marketing
\* budgets stored, and the gain each investment buys
ShowsSpends(before, after, spends) ==
    LET spent(section, field) == Get(spends, <<section, field>>, 0)
        points(field, per_unit, divisor) ==
            (spent("corporate", field) * per_unit * 100) \div divisor
    IN  /\ after.capital =
              before.capital - SumOver(DOMAIN spends, spends)
        /\ after.patent_portfolio =
              before.patent_portfolio
                + (spent("r_d", "budget") * 1000) \div RD_PATENT_GAIN_BUDGET_DIVISOR
        /\ \A s \in Segments :
              <<"products", s>> \in DOMAIN spends =>
                  after.products[s].marketing_budget = spends[<<"products", s>>]
        /\ after.production_capacity =
              before.production_capacity
                + spent("operations", "capacity_investment") \div OPS_CAPACITY_INVESTMENT_COST_PER_UNIT
        /\ after.quality_control =
              Clamp100(before.quality_control
                         + (spent("operations", "quality_investment")
                              * OPS_QUALITY_POINTS_PER_UNIT * 100)
                             \div OPS_QUALITY_INVESTMENT_DIVISOR)
        /\ after.environmental_impact =
              Clamp100(before.environmental_impact
                         + points("sustainability_investment",
                                  CORP_SUSTAINABILITY_POINTS_PER_UNIT,
                                  CORP_SUSTAINABILITY_INVESTMENT_DIVISOR))
        /\ after.csr_rating =
              Clamp100(before.csr_rating
                         + points("csr_investment", CORP_CSR_POINTS_PER_UNIT,
                                  CORP_CSR_INVESTMENT_DIVISOR))
        /\ after.employee_satisfaction =
              Clamp100(before.employee_satisfaction
                         + points("employee_investment", CORP_EMPLOYEE_POINTS_PER_UNIT,
                                  CORP_EMPLOYEE_INVESTMENT_DIVISOR))
        /\ after.brand_strength =
              Clamp100(before.brand_strength
                         + points("brand_investment", CORP_BRAND_POINTS_PER_UNIT,
                                  CORP_BRAND_INVESTMENT_DIVISOR))

SpendsOf(team_id, floored) ==
    SequentialSpends(Requests(game.teams[team_id], LastDecisions(game', team_id)),
                     game.teams[team_id].capital, floored)

\* ---------------------------------------------------------------- claim C30
\* C30 (as stated): within one process_decisions call the spends are cut one
\* after the other in the order R&D, marketing of each segment, capacity,
\* quality, sustainability, CSR, employees, brand: each spend is the smaller
\* of the amount asked for and the cash left by the spends before it.
C30_SpendsCutInFixedOrder ==
    [][last'.op = "process_decisions" =>
         ShowsSpends(game.teams[last'.team], game'.teams[last'.team],
                     SpendsOf(last'.team, FALSE))]_vars

\* C30 (amended): the spends are cut one after the other in that order, each
\* the smaller of the amount asked for and the cash left by the spends before
\* it, and a marketing spend is raised to zero when that amount is negative.
C30_SpendsCutInFixedOrderFloored ==
    [][last'.op = "process_decisions" =>
         ShowsSpends(game.teams[last'.team], game'.teams[last'.team],
                     SpendsOf(last'.team, TRUE))]_vars


\* a call with all four sections that used up the cash within the operations
\* section: only a part of the capacity asked for was bought
C30_Witness ==
    /\ last.op = "process_decisions"
    /\ LET c == game.teams[last.team]
           d == LastDecisions(game, last.team)
       IN  /\ {"r_d", "products", "operations", "corporate"} \subseteq DOMAIN d
           /\ c.capital = 0
           /\ c.production_capacity > INITIAL_PRODUCTION_CAPACITY
           /\ c.production_capacity <
                  INITIAL_PRODUCTION_CAPACITY
                    + d.operations.capacity_investment
                        \div OPS_CAPACITY_INVESTMENT_COST_PER_UNIT
           /\ d.corporate.brand_investment > 0
           /\ c.brand_strength = INITIAL_BRAND_STRENGTH


\* ---------------------------------------------------------------- claim C31
\* C31: a _finalize_round call that fails part-way leaves the game exactly as
\* it was before the call: no company, no round result and not the round
\* counter has changed.
C31_FailedFinalizeChangesNothing ==
    [][(last'.op = "_finalize_round" /\ last'.status = 500) => game' = game]_vars

\* ---------------------------------------------------------------- claim C32
\* C32: _finalize_round called directly on a game that is not finished, in a
\* round in which no team has submitted yet, completes and advances the round
\* counter by exactly one.
C32_DirectFinalizeAdvances ==
    [][(/\ last'.op = "_finalize_round"
        /\ ~game.finished
        /\ Submissions(game) = <<>>) =>
           /\ last'.status = 200
           /\ game'.current_round = game.current_round + 1]_vars


\* the events of the log that target round r
EventsOfRound(g, r) == {i \in 1..Len(g.events) : g.events[i].round = r}

\* ---------------------------------------------------------------- claim C33
\* C33: every round of the stored game that has started has exactly one event
\* targeting it in the event log while the round number is below 6, and
\* exactly two from round 6 onward; the event log only grows.
C33_EventsOfEveryRound ==
    [][/\ Len(store'.events) >= Len(store.events)
       /\ SubSeq(store'.events, 1, Len(store.events)) = store.events
       /\ \A r \in 1..store'.current_round :
              r <= store'.num_rounds =>
                  Cardinality(EventsOfRound(store', r)) = IF r < 6 THEN 1 ELSE 2]_vars


\* ===================================================== events of any shape
\* Largest number of events applied to one game.
MaxEventSteps == 3

\* game_state.py 37: the id of the i-th team, the key of its impacts
StoredTeamId(team_id) == "team_" \o ToString(team_id)

\* a variant of ActualImpacts that leaves the team's own impacts out
ActualImpacts_AllOnly(company_impact_definitions, team_id) ==
    Get(company_impact_definitions, "all", EmptyDict)

\* events.py 76-79: the impacts under "all", overridden by those under the
\* company's team id
ActualImpacts(company_impact_definitions, team_id) ==
    LET all == Get(company_impact_definitions, "all", EmptyDict)
        team_specific_impacts ==
            Get(company_impact_definitions, StoredTeamId(team_id), EmptyDict)
    IN  [area \in DOMAIN all \cup DOMAIN team_specific_impacts |->
           IF area \in DOMAIN team_specific_impacts
           THEN team_specific_impacts[area]
           ELSE all[area]]

\* events.py 31-99: Event.apply_impact of an event with the given
\* impact_values
ApplyImpactValues(impact_values, g) ==
    LET g1 == IF "market" \in DOMAIN impact_values
              THEN [g EXCEPT !.market = ApplyMarketImpact(g.market, impact_values.market)]
              ELSE g
    IN  IF "companies" \in DOMAIN impact_values
        THEN [g1 EXCEPT !.teams =
                Evaluated([t \in DOMAIN g.teams |->
                    ApplyCompanyImpact(g.teams[t],
                                       ActualImpacts(impact_values.companies, t))])]
        ELSE g1

\* events applied: the economic downturn of the template list, the same with
\* an impact of its own for team_1, an event for team_2 alone, an event on
\* the market alone, one whose impact on team_1 cancels that on all, and the
\* capacity expansion of the template list
DownturnEvent ==
    [market |-> [segment_budget |-> 15, segment_premium |-> -10],
     companies |-> [all |-> [capital |-> -5]]]

OverriddenEvent ==
    [companies |-> [all |-> [capital |-> -5, brand_strength |-> -500],
                    team_1 |-> [capital |-> 10]]]

SingleTeamEvent ==
    [companies |-> [team_2 |-> [r_d_capability |-> 500, production_capacity |-> -15]]]

MarketOnlyEvent == [market |-> [total_market_size |-> -10]]

CancelledEvent ==
    [companies |-> [all |-> [customer_satisfaction |-> 500, market_share |-> 500],
                    team_1 |-> [customer_satisfaction |-> -500]]]

ExpansionEvent == [companies |-> [all |-> [production_capacity |-> 10]]]

EventDefinitions ==
    {DownturnEvent, OverriddenEvent, SingleTeamEvent, MarketOnlyEvent, CancelledEvent,
     ExpansionEvent}

ApplyEvent(impact_values) ==
    /\ issued < MaxEventSteps
    /\ game' = ApplyImpactValues(impact_values, game)
    /\ last' = [op |-> "apply_impact", team |-> 0, status |-> 200, error |-> "",
                empty |-> FALSE, impact_values |-> impact_values]
    /\ issued' = issued + 1
    /\ UNCHANGED <<store, req, acked, fin>>

NextEvent == \E impact_values \in EventDefinitions : ApplyEvent(impact_values)

SpecEvent == InitWith(1) /\ [][NextEvent]_vars

\* the one impact an event has on an attribute of a team: that under the
\* team's id when there is one, else that under "all", else none
ImpactOn(impact_values, team_id, area) ==
    LET definitions == Get(impact_values, "companies", EmptyDict)
        own == Get(definitions, StoredTeamId(team_id), EmptyDict)
        all == Get(definitions, "all", EmptyDict)
    IN  IF area \in DOMAIN own THEN <<own[area]>>
        ELSE IF area \in DOMAIN all THEN <<all[area]>>
        ELSE <<>>

ScaledAreas == {"capital", "production_capacity"}

\* the attribute after the impacts given, each applied once
Impacted(value, area, impacts) ==
    IF impacts = <<>> THEN value
    ELSE IF area \in ScaledAreas THEN (value * (100 + impacts[1])) \div 100
    ELSE Clamp100(value + impacts[1])

\* ---------------------------------------------------------------- claim C34
\* C34: apply_impact applies to each company one impact per attribute, the
\* value under the team's id when the event has one and else the value under
\* "all"; a capital impact d multiplies the capital by (1 + d) once, and a
\* company the event does not cover is unchanged.
C34_OneImpactPerAttribute ==
    [][last'.op = "apply_impact" =>
         \A t \in DOMAIN game.teams : \A area \in DOMAIN game.teams[t] :
             game'.teams[t][area] =
                 Impacted(game.teams[t][area], area,
                          ImpactOn(last'.impact_values, t, area))]_vars

\* an event was applied whose impact on the capital of team_1 replaced the
\* one on all
C34_Witness ==
    /\ last.op = "apply_impact"
    /\ last.impact_values = OverriddenEvent
    /\ issued = 1
    /\ game.teams[1].capital = (INITIAL_CAPITAL * 110) \div 100
    /\ game.teams[2].capital = (INITIAL_CAPITAL * 95) \div 100


\* ---------------------------------------------------------------- claim C35
\* C35: after a team's decisions are processed in round r the company's
\* decision history has an entry for round r equal to the payload, and the
\* entries of the other rounds are as before.
C35_HistoryKeptPerRound ==
    [][(last'.op = "process_team_decisions" /\ last'.status = 200) =>
         LET r == game.current_round
             before == game.teams[last'.team].decisions_history
             after == game'.teams[last'.team].decisions_history
         IN  /\ r \in DOMAIN after
             /\ \E decisions \in Payloads :
                    /\ (DOMAIN decisions = {}) = last'.empty
                    /\ after[r] = decisions
             /\ \A earlier \in DOMAIN before \ {r} :
                    earlier \in DOMAIN after /\ after[earlier] = before[earlier]]_vars


\* the entry of a segment in the products section, empty when it is not named
ProductDecisions(decisions, segment) ==
    LET items == Get(decisions, "products", <<>>)
        named == {i \in 1..Len(items) : items[i][1] = segment}
    IN  IF named = {} THEN EmptyDict ELSE items[CHOOSE i \in named : TRUE][2]

\* the products as the payload sets them before the volumes are fitted to the
\* capacity: a segment active after its flag is set takes the payload's
\* fields and the marketing spend, an inactive one keeps its fields
OverwrittenProducts(c, decisions, spends) ==
    [s \in Segments |->
       LET pd == ProductDecisions(decisions, s)
           p == c.products[s]
       IN  IF ~Get(pd, "active", p.active)
           THEN [p EXCEPT !.active = FALSE]
           ELSE [active |-> TRUE,
                 price |-> Get(pd, "price", p.price),
                 quality |-> Get(pd, "quality", p.quality),
                 features |-> Get(pd, "features", p.features),
                 production_volume |-> Get(pd, "production_volume", p.production_volume),
                 marketing_budget |-> Get(spends, <<"products", s>>, p.marketing_budget)]]

\* ---------------------------------------------------------------- claim C36
\* C36: for each segment named in the products section, after
\* process_decisions the active flag is the payload's (kept when absent); the
\* price, quality, features, production volume and marketing budget are
\* overwritten and the marketing is charged only if the segment is active
\* then; a segment set inactive keeps its other fields and costs nothing.
C36_OnlyActiveSegmentsOverwritten ==
    [][(last'.op = "process_decisions"
          /\ "products" \in DOMAIN LastDecisions(game', last'.team)) =>
         LET before == game.teams[last'.team]
             after == game'.teams[last'.team]
             spends == SpendsOf(last'.team, TRUE)
             overwritten ==
                 OverwrittenProducts(before, LastDecisions(game', last'.team), spends)
         IN  /\ after.products =
                    ScaleProduction([before EXCEPT !.products = overwritten]).products
             /\ \A s \in Segments :
                    ~overwritten[s].active => <<"products", s>> \notin DOMAIN spends
             /\ after.capital = before.capital - SumOver(DOMAIN spends, spends)]_vars

\* a payload that withdraws the premium product and names its other fields:
\* the product is inactive with its fields kept, the other one is repriced
\* and only its marketing is paid
C36_Witness ==
    /\ last.op = "process_decisions"
    /\ issued = 1
    /\ LastDecisions(game, last.team) = WithdrawnPayload
    /\ ~game.teams[last.team].products["premium"].active
    /\ game.teams[last.team].products["premium"].price = 999
    /\ game.teams[last.team].products["mid_range"].price = 450
    /\ game.teams[last.team].capital = INITIAL_CAPITAL - 30000


ScoreFields ==
    {"score", "financial_score", "market_score", "innovation_score",
     "sustainability_score"}

\* ---------------------------------------------------------------- claim C37
\* C37: in every reachable state the four sub-scores and the composite score
\* of every company are at least 0, also for a company whose cash is negative.
C37_ScoresNotNegative ==
    \A t \in DOMAIN game.teams : \A f \in ScoreFields : game.teams[t][f] >= 0


\* scores a company may carry from earlier rounds, in hundredths of a point
PriorScores == {0, 2500, 10000}

\* the company with every stored score replaced by the given one
WithScores(c, prior) == [f \in DOMAIN c |-> IF f \in ScoreFields THEN prior ELSE c[f]]

\* ---------------------------------------------------------------- claim C38
\* C38: calculate_score depends on the company's current attributes alone:
\* the scores stored by a settlement are those computed for the same company
\* with any other scores stored before, and computing them again without a
\* change in between gives the same values.
C38_ScoreIsFunctionOfAttributes ==
    last.op = "update_financials" =>
        \A t \in DOMAIN game.teams :
            /\ \A prior \in PriorScores :
                   calculate_score(WithScores(game.teams[t], prior)) = game.teams[t]
            /\ calculate_score(game.teams[t]) = game.teams[t]

\* a settlement that stored a composite and a financial score above zero
C38_Witness ==
    /\ last.op = "update_financials"
    /\ \E t \in DOMAIN game.teams :
           /\ game.teams[t].score > 0
           /\ game.teams[t].financial_score > 0
           /\ game.teams[t].score # game.teams[t].financial_score


\* ================================================ the settlement of a round
\* product decisions of the teams followed by the settlement of
\* game_state.py 116-121 on the market of a new game
NextSettle ==
    \/ \E t \in Teams, d \in MarketPayloads : DecideProducts(t, d)
    \/ SettleCompany

SpecSettle == InitMarket /\ [][NextSettle]_vars

\* the units a company sold in all segments according to the market results
UnitsSold(market_results, t) ==
    IF t \in DOMAIN market_results
    THEN SumOver(DOMAIN market_results[t].sales,
                 [s \in DOMAIN market_results[t].sales |->
                    market_results[t].sales[s].units_sold])
    ELSE 0

C40_CashNeverIncreased ==
    [][last'.op = "process_decisions" =>
         LET before == game.teams[last'.team]
             after == game'.teams[last'.team]
             spends == SpendsOf(last'.team, TRUE)
         IN  /\ ShowsSpends(before, after, spends)
             /\ \A item \in DOMAIN spends : spends[item] >= 0
             /\ after.capital <= before.capital
             /\ after.patent_portfolio >= before.patent_portfolio
             /\ after.r_d_capability >= before.r_d_capability]_vars

====
